---- MODULE Spec2Model ----
(***************************************************************************)
(* Model of the RTMDet inpainting servers (InpaintServer/RTMDet_Realtime,  *)
(* InpaintServer/PC_Inpaint): the per-connection protocol handlers, the    *)
(* two locks, the hint-aware pipeline RTMDetInpainter.inpaint and the      *)
(* session pipeline RTMDetInpainterStable.inpaint with its temporal        *)
(* persistence.                                                            *)
(*                                                                         *)
(* Representation.  A mask is a record [h, w, px] with px the set of set   *)
(* pixels <<y, x>>; a frame is a record [h, w, px] with px a function from *)
(* the pixel grid to colours.  An optional value (Python None) is the      *)
(* empty tuple <<>>, a present value v is <<v>>.  Scores are percentages   *)
(* (0.3 is 30).                                                            *)
(***************************************************************************)
EXTENDS Integers, Sequences, FiniteSets, TLC

\* ------------------------------------------------------------------
\* Bounds of the model
\* ------------------------------------------------------------------

\* frames the peer of the first connection may send (the peer of any other
\* connection sends one)
MaxFrames == 2

\* ------------------------------------------------------------------
\* Program constants
\* ------------------------------------------------------------------

\* margin = max(min(original_w, original_h) // 20, 16)
HintMarginDivisor == 20

HintMarginFloor == 16

\* if y1 - y0 > 2 and x1 - x0 > 2
HintMinExtent == 2

\* ------------------------------------------------------------------
\* Arithmetic helpers
\* ------------------------------------------------------------------

Max2(a, b) == IF a >= b THEN a ELSE b

Min2(a, b) == IF a <= b THEN a ELSE b

Abs(a) == IF a < 0 THEN -a ELSE a

MinOf(S) == CHOOSE v \in S : \A u \in S : v <= u

MaxOf(S) == CHOOSE v \in S : \A u \in S : v >= u

\* ------------------------------------------------------------------
\* Optional values
\* ------------------------------------------------------------------

None == <<>>

Some(v) == <<v>>

\* ------------------------------------------------------------------
\* Masks and frames
\* ------------------------------------------------------------------

Grid(h, w) == (0 .. h - 1) \X (0 .. w - 1)

\* (the pixel set is enumerated once, here, and kept as an explicit set)
MkMask(h, w, px) == [h |-> h, w |-> w, px |-> {p : p \in px}]

\* np.zeros(shape, dtype=bool)
ZeroMask(h, w) == MkMask(h, w, {})

\* mask.any() / np.count_nonzero(mask) > 0
MaskAny(m) == m.px # {}

ShapeOf(a) == <<a.h, a.w>>

\* the colour the fill operator writes into a masked pixel
FillColour == "fill"

MkFrame(h, w, c) == [h |-> h, w |-> w, px |-> [p \in Grid(h, w) |-> c]]

\* arr[y0:y1e, x0:x1e] on a mask (numpy clips the slice to the array)
CropMask(m, y0, y1e, x0, x1e) ==
    LET ye == Min2(y1e, m.h)
        xe == Min2(x1e, m.w)
        ys == Min2(y0, ye)
        xs == Min2(x0, xe)
    IN  MkMask(ye - ys, xe - xs,
               {<<p[1] - ys, p[2] - xs>> :
                   p \in {q \in m.px : q[1] >= ys /\ q[1] < ye /\ q[2] >= xs /\ q[2] < xe}})

\* arr[y0:y1e, x0:x1e] on a frame
CropFrame(f, y0, y1e, x0, x1e) ==
    LET ye == Min2(y1e, f.h)
        xe == Min2(x1e, f.w)
        ys == Min2(y0, ye)
        xs == Min2(x0, xe)
    IN  [h |-> ye - ys, w |-> xe - xs,
         px |-> [p \in Grid(ye - ys, xe - xs) |-> f.px[<<p[1] + ys, p[2] + xs>>]]]

\* full = zeros((h, w)); full[y0:y1e, x0:x1e] = m
PasteMask(m, h, w, y0, x0) ==
    MkMask(h, w, {<<p[1] + y0, p[2] + x0>> : p \in m.px})

\* cv2.resize(mask, (w2, h2), interpolation=cv2.INTER_NEAREST):
\* destination pixel (y, x) reads source pixel (floor(y*h/h2), floor(x*w/w2))
ResizeNearest(m, h2, w2) ==
    IF m.h = 0 \/ m.w = 0
    THEN ZeroMask(h2, w2)
    ELSE MkMask(h2, w2,
                {p \in Grid(h2, w2) :
                    <<Min2((p[1] * m.h) \div h2, m.h - 1),
                      Min2((p[2] * m.w) \div w2, m.w - 1)>> \in m.px})

\* np.logical_or(a, b) / a |= b on masks of one shape
MaskUnion(a, b) == MkMask(a.h, a.w, a.px \cup b.px)

\* ------------------------------------------------------------------
\* External collaborators
\* ------------------------------------------------------------------

\* cv2.inpaint(image, mask, radius, flags): a new frame of the image's size
\* whose masked pixels are reconstructed; cv2 rejects a mask of another size
FillFits(image, mask) == ShapeOf(image) = ShapeOf(mask)

FillOp(image, mask) ==
    [h |-> image.h, w |-> image.w,
     px |-> [p \in Grid(image.h, image.w) |->
                IF p \in mask.px THEN FillColour ELSE image.px[p]]]

\* dataset_meta["classes"] of the loaded model
ClassNames == <<"person", "cat">>

\* ------------------------------------------------------------------
\* RTMDetInpainter helpers
\* ------------------------------------------------------------------

LabelName(label_id) ==
    IF 0 <= label_id /\ label_id < Len(ClassNames)
    THEN ClassNames[label_id + 1]
    ELSE ToString(label_id)

\* a filter without the label test
DetectionAcceptedAnyLabel(d, target_labels, score_threshold) ==
    /\ ~(d.score < score_threshold)
    /\ d.mask.h * d.mask.w # 0

\* a filter without the score test
DetectionAcceptedAnyScore(d, target_labels, score_threshold) ==
    /\ ~(target_labels # {} /\ LabelName(d.label) \notin target_labels)
    /\ d.mask.h * d.mask.w # 0

\* the tests of the loop body of _build_combined_mask on one detection
DetectionAccepted(d, target_labels, score_threshold) ==
    /\ ~(target_labels # {} /\ LabelName(d.label) \notin target_labels)
    /\ ~(d.score < score_threshold)
    /\ d.mask.h * d.mask.w # 0

\* the mask one accepted detection contributes at target_shape
DetectionMask(d, th, tw) ==
    IF ShapeOf(d.mask) # <<th, tw>> THEN ResizeNearest(d.mask, th, tw) ELSE d.mask

\* _build_combined_mask(preds, target_shape): preds is the sequence of
\* detections (the parallel lists masks, labels, scores)
BuildCombinedMask(preds, th, tw, target_labels, score_threshold) ==
    MkMask(th, tw,
           UNION {DetectionMask(preds[i], th, tw).px :
                    i \in {j \in 1 .. Len(preds) :
                             DetectionAccepted(preds[j], target_labels, score_threshold)}})

\* the detector's answer read as a list of detections: an answer without
\* predictions gives none
PredsOf(result) == IF result.kind = "preds" THEN result.preds ELSE <<>>

\* if self.inference_size and (w, h) != self.inference_size
InferShape(h, w, wh, ww, inference_size) ==
    IF inference_size # None /\ <<w, h>> # inference_size[1]
    THEN <<inference_size[1][2], inference_size[1][1]>>
    ELSE <<wh, ww>>

\* ------------------------------------------------------------------
\* RTMDetInpainterStable: persistence, small blobs, morphology
\* ------------------------------------------------------------------

\* a stabilizer that adds the new mask to the one it remembers
StabilizerStepMerging(mask, pm, ttl, keep_frames) ==
    IF ~MaskAny(mask) /\ pm # None /\ ttl > 0
    THEN [mask |-> pm[1], prev_mask |-> pm, prev_ttl |-> ttl - 1]
    ELSE IF MaskAny(mask)
         THEN [mask |-> mask,
               prev_mask |-> IF pm # None /\ ShapeOf(pm[1]) = ShapeOf(mask)
                             THEN Some(MaskUnion(mask, pm[1])) ELSE Some(mask),
               prev_ttl |-> Max2(0, keep_frames)]
         ELSE [mask |-> mask, prev_mask |-> pm, prev_ttl |-> ttl]

\* a stabilizer that persists without counting down
StabilizerStepNoCountdown(mask, pm, ttl, keep_frames) ==
    IF ~MaskAny(mask) /\ pm # None /\ ttl > 0
    THEN [mask |-> pm[1], prev_mask |-> pm, prev_ttl |-> ttl]
    ELSE IF MaskAny(mask)
         THEN [mask |-> mask, prev_mask |-> Some(mask), prev_ttl |-> Max2(0, keep_frames)]
         ELSE [mask |-> mask, prev_mask |-> pm, prev_ttl |-> ttl]

\* a persistence test that is off by one: ttl >= 0
StabilizerStepOffByOne(mask, pm, ttl, keep_frames) ==
    IF ~MaskAny(mask) /\ pm # None /\ ttl >= 0
    THEN [mask |-> pm[1], prev_mask |-> pm, prev_ttl |-> ttl - 1]
    ELSE IF MaskAny(mask)
         THEN [mask |-> mask, prev_mask |-> Some(mask), prev_ttl |-> Max2(0, keep_frames)]
         ELSE [mask |-> mask, prev_mask |-> pm, prev_ttl |-> ttl]

\* a persistence step that remembers keep_frames as given, negative or not
StabilizerStepUnclamped(mask, pm, ttl, keep_frames) ==
    IF ~MaskAny(mask) /\ pm # None /\ ttl > 0
    THEN [mask |-> pm[1], prev_mask |-> pm, prev_ttl |-> ttl - 1]
    ELSE IF MaskAny(mask)
         THEN [mask |-> mask, prev_mask |-> Some(mask), prev_ttl |-> keep_frames]
         ELSE [mask |-> mask, prev_mask |-> pm, prev_ttl |-> ttl]

\* "Temporal persistence" step of RTMDetInpainterStable.inpaint
StabilizerStep(mask, pm, ttl, keep_frames) ==
    IF ~MaskAny(mask) /\ pm # None /\ ttl > 0
    THEN [mask |-> pm[1], prev_mask |-> pm, prev_ttl |-> ttl - 1]
    ELSE IF MaskAny(mask)
         THEN [mask |-> mask, prev_mask |-> Some(mask), prev_ttl |-> Max2(0, keep_frames)]
         ELSE [mask |-> mask, prev_mask |-> pm, prev_ttl |-> ttl]

Adjacent8(p, q) == p # q /\ Abs(p[1] - q[1]) <= 1 /\ Abs(p[2] - q[2]) <= 1

RECURSIVE Reach(_, _)
Reach(S, px) ==
    LET N == S \cup {q \in px : \E p \in S : Adjacent8(p, q)}
    IN  IF N = S THEN S ELSE Reach(N, px)

\* cv2.connectedComponentsWithStats(mask, connectivity=8): the component of p
ComponentOf(p, px) == Reach({p}, px)

\* a filter that also drops the components of exactly min_area pixels
FilterSmallComponentsStrict(mask, min_area) ==
    IF min_area <= 1
    THEN mask
    ELSE IF mask.h * mask.w = 0
         THEN mask
         ELSE MkMask(mask.h, mask.w,
                     {p \in mask.px : Cardinality(ComponentOf(p, mask.px)) > min_area})

\* _filter_small_components(mask, min_area)
FilterSmallComponents(mask, min_area) ==
    IF min_area <= 1
    THEN mask
    ELSE IF mask.h * mask.w = 0
         THEN mask
         ELSE MkMask(mask.h, mask.w,
                     {p \in mask.px : Cardinality(ComponentOf(p, mask.px)) >= min_area})

\* cv2.getStructuringElement(cv2.MORPH_ELLIPSE, (2k+1, 2k+1)): row dy of the
\* kernel spans the columns -dx .. dx with dx = round(sqrt(k*k - dy*dy))
EllipseHalfWidth(k, dy) ==
    MaxOf({d \in 0 .. k : d = 0 \/ (2 * d - 1) * (2 * d - 1) <= 4 * (k * k - dy * dy)})

EllipseKernel(k) ==
    {o : o \in {q \in (-k .. k) \X (-k .. k) : Abs(q[2]) <= EllipseHalfWidth(k, q[1])}}

\* cv2.dilate(mask, kernel): pixels outside the image never set a pixel
Dilate(m, K) ==
    MkMask(m.h, m.w,
           {p \in Grid(m.h, m.w) : \E o \in K : <<p[1] + o[1], p[2] + o[2]>> \in m.px})

\* cv2.erode(mask, kernel): pixels outside the image never clear a pixel
Erode(m, K) ==
    MkMask(m.h, m.w,
           {p \in Grid(m.h, m.w) :
               \A o \in K :
                   LET q == <<p[1] + o[1], p[2] + o[2]>>
                   IN  q \in Grid(m.h, m.w) => q \in m.px})

\* cv2.morphologyEx(mask, cv2.MORPH_CLOSE, kernel)
MorphClose(m, K) == Erode(Dilate(m, K), K)

\* "Morphology: close holes then dilate edges"
Morphology(mask, mask_close, mask_dilate) ==
    LET k == Max2(mask_close, mask_dilate)
        K == EllipseKernel(k)
        closed == IF mask_close > 0 THEN MorphClose(mask, K) ELSE mask
    IN  IF k > 0
        THEN IF mask_dilate > 0 THEN Dilate(closed, K) ELSE closed
        ELSE mask

\* "Remove tiny blobs"
RemoveTinyBlobs(mask, min_area) ==
    IF min_area > 1 THEN FilterSmallComponents(mask, min_area) ELSE mask

\* a postprocessor that grows the mask before it drops the small blobs
PostprocessMorphologyFirst(mask, min_area, mask_close, mask_dilate) ==
    RemoveTinyBlobs(Morphology(mask, mask_close, mask_dilate), min_area)

\* "Remove tiny blobs", then "Morphology: close holes then dilate edges"
Postprocess(mask, min_area, mask_close, mask_dilate) ==
    Morphology(RemoveTinyBlobs(mask, min_area), mask_close, mask_dilate)

\* a test that never finds the ROI collapsed
RoiDegenerateSkipped(b) == FALSE

\* bounds clamped to the frame's extent instead of its last row and column
RoiBoundsClampedToExtent(mask, margin, h, w) ==
    LET ys == {p[1] : p \in mask.px}
        xs == {p[2] : p \in mask.px}
    IN  <<Max2(MinOf(ys) - margin, 0), Min2(MaxOf(ys) + margin, h),
          Max2(MinOf(xs) - margin, 0), Min2(MaxOf(xs) + margin, w)>>

\* the margin-expanded bounding box <<y0, y1, x0, x1>> of a non-empty mask,
\* clamped to an h-by-w frame
RoiBounds(mask, margin, h, w) ==
    LET ys == {p[1] : p \in mask.px}
        xs == {p[2] : p \in mask.px}
    IN  <<Max2(MinOf(ys) - margin, 0), Min2(MaxOf(ys) + margin, h - 1),
          Max2(MinOf(xs) - margin, 0), Min2(MaxOf(xs) + margin, w - 1)>>

\* if y1 <= y0 or x1 <= x0
RoiDegenerate(b) == b[2] <= b[1] \/ b[4] <= b[3]

\* ------------------------------------------------------------------
\* RTMDetInpainterStable.inpaint, cut at its two external calls
\* ------------------------------------------------------------------

\* the resolution handed to the detector by the session pipeline
StableInferShape(image, c) == InferShape(image.h, image.w, image.h, image.w, c.inference_size)

\* det_mask: the combined mask, resized back to the full frame
StableDetMask(image, result, c) ==
    LET inf == StableInferShape(image, c)
        det == BuildCombinedMask(PredsOf(result), inf[1], inf[2],
                                 c.target_labels, c.score_threshold)
    IN  IF inf # ShapeOf(image) THEN ResizeNearest(det, image.h, image.w) ELSE det

\* from the detector's answer to the fill call: persistence, small blobs,
\* morphology, the choice of the fill region.  path is "copy" (no fill),
\* "full" (fill over the whole frame) or "roi"
StablePlan(image, result, pm, ttl, c) ==
    LET det == StableDetMask(image, result, c)
        st == StabilizerStep(det, pm, ttl, c.keep_frames)
        mask == Postprocess(st.mask, c.min_area, c.mask_close, c.mask_dilate)
        b == IF MaskAny(mask) THEN RoiBounds(mask, c.roi_margin, image.h, image.w)
             ELSE <<0, 0, 0, 0>>
        path == IF ~MaskAny(mask) THEN "copy"
                ELSE IF RoiDegenerate(b) THEN "full" ELSE "roi"
    IN  [det_mask |-> det, chosen |-> st.mask, prev_mask |-> st.prev_mask,
         prev_ttl |-> st.prev_ttl, mask |-> mask, path |-> path, bbox |-> b,
         fill_img |-> IF path = "roi"
                      THEN CropFrame(image, b[1], b[2] + 1, b[3], b[4] + 1)
                      ELSE image,
         fill_mask |-> IF path = "roi"
                       THEN CropMask(mask, b[1], b[2] + 1, b[3], b[4] + 1)
                       ELSE mask]

\* a write-back into the caller's array, without the copy
RoiWriteBackInPlace(image, roi_result, y0, x0) ==
    LET written == [h |-> image.h, w |-> image.w,
                    px |-> [p \in Grid(image.h, image.w) |->
                               IF /\ p[1] >= y0 /\ p[1] < y0 + roi_result.h
                                  /\ p[2] >= x0 /\ p[2] < x0 + roi_result.w
                               THEN roi_result.px[<<p[1] - y0, p[2] - x0>>]
                               ELSE image.px[p]]]
    IN  [input |-> written, out |-> written]

\* a write-back at the frame's origin instead of the ROI's
RoiWriteBackAtOrigin(image, roi_result, y0, x0) ==
    [input |-> image,
     out |-> [h |-> image.h, w |-> image.w,
              px |-> [p \in Grid(image.h, image.w) |->
                         IF p[1] < roi_result.h /\ p[2] < roi_result.w
                         THEN roi_result.px[p]
                         ELSE image.px[p]]]]

\* output = image_bgr.copy(); output[y0:y1+1, x0:x1+1] = roi_result.
\* input is the caller's array after the statement, out the returned frame
RoiWriteBack(image, roi_result, y0, x0) ==
    [input |-> image,
     out |-> [h |-> image.h, w |-> image.w,
              px |-> [p \in Grid(image.h, image.w) |->
                         IF /\ p[1] >= y0 /\ p[1] < y0 + roi_result.h
                            /\ p[2] >= x0 /\ p[2] < x0 + roi_result.w
                         THEN roi_result.px[<<p[1] - y0, p[2] - x0>>]
                         ELSE image.px[p]]]]

\* the rest of the session pipeline once the fill call has returned `filled`
\* (unused on the "copy" path): the caller's array and the returned frame
StableFinish(image, plan, filled) ==
    IF plan.path = "copy" THEN [input |-> image, out |-> image]
    ELSE IF plan.path = "full" THEN [input |-> image, out |-> filled]
    ELSE RoiWriteBack(image, filled, plan.bbox[1], plan.bbox[3])

\* ------------------------------------------------------------------
\* RTMDetInpainter.inpaint (hint-aware), cut at its two external calls
\* ------------------------------------------------------------------

\* margin = max(min(original_w, original_h) // 20, 16)
HintMargin(h, w) == Max2(Min2(w, h) \div HintMarginDivisor, HintMarginFloor)

\* the prior-mask block at the head of inpaint: the prior brought to the
\* frame's size (None when all zero), the crop bounds <<y0, y1+1, x0, x1+1>>,
\* the working image's shape and the prior cropped to the ROI
BaseEntry(image, prior) ==
    LET h == image.h
        w == image.w
        pm == IF prior = None THEN None
              ELSE IF ShapeOf(prior[1]) # <<h, w>>
                   THEN Some(ResizeNearest(prior[1], h, w))
                   ELSE prior
        live == pm # None /\ MaskAny(pm[1])
        b == IF live THEN RoiBounds(pm[1], HintMargin(h, w), h, w) ELSE <<0, 0, 0, 0>>
        cropped == live /\ b[2] - b[1] > HintMinExtent /\ b[4] - b[3] > HintMinExtent
    IN  [prior |-> IF live THEN pm ELSE None,
         crop |-> IF cropped THEN Some(<<b[1], b[2] + 1, b[3], b[4] + 1>>) ELSE None,
         wh |-> IF cropped THEN b[2] - b[1] + 1 ELSE h,
         ww |-> IF cropped THEN b[4] - b[3] + 1 ELSE w,
         prior_roi |-> IF cropped
                       THEN Some(CropMask(pm[1], b[1], b[2] + 1, b[3], b[4] + 1))
                       ELSE None]

\* the resolution handed to the detector by the hint-aware pipeline
BaseInferShape(image, e, c) == InferShape(image.h, image.w, e.wh, e.ww, c.inference_size)

\* the union block: detector mask, cropped prior, full prior
BaseUnion(image, e, combined) ==
    IF e.prior_roi # None
    THEN MaskUnion(combined, e.prior_roi[1])
    ELSE IF e.prior # None
         THEN IF e.crop # None
              THEN MaskUnion(PasteMask(combined, image.h, image.w, e.crop[1][1], e.crop[1][3]),
                             e.prior[1])
              ELSE e.prior[1]
         ELSE combined

\* from the detector's answer to the fill call: None when the frame is
\* returned as a copy, else the mask handed to cv2.inpaint with the frame
BaseFillMask(image, e, result, c) ==
    LET inf == BaseInferShape(image, e, c)
        combined == BuildCombinedMask(PredsOf(result), inf[1], inf[2],
                                      c.target_labels, c.score_threshold)
        atwork == IF inf # <<e.wh, e.ww>> THEN ResizeNearest(combined, e.wh, e.ww)
                  ELSE combined
        u == BaseUnion(image, e, atwork)
        full == IF e.crop # None /\ ShapeOf(u) # ShapeOf(image)
                THEN PasteMask(u, image.h, image.w, e.crop[1][1], e.crop[1][3])
                ELSE u
        fitted == IF e.prior # None /\ ShapeOf(full) # ShapeOf(e.prior[1])
                  THEN ResizeNearest(full, e.prior[1].h, e.prior[1].w)
                  ELSE full
    IN  IF result.kind # "preds" \/ result.preds = <<>> \/ ~MaskAny(combined)
        THEN e.prior
        ELSE Some(fitted)

\* what inpaint returns once the fill call (if any) has returned `filled`
BaseFinish(image, fm, filled) ==
    IF fm = None THEN [input |-> image, out |-> image]
    ELSE [input |-> image, out |-> filled]

\* ------------------------------------------------------------------
\* Wire format and codec
\* ------------------------------------------------------------------

\* the image payloads a peer sends: one that does not decode, two that do
JunkBytes == <<7>>

JpegA == <<1, 1>>

JpegB == <<2, 2, 2>>

Payloads == {JunkBytes, JpegA}

\* the mask payloads a peer sends (raw 8-bit values, row-major)
MaskPayloads == {<<0, 255, 0, 0>>, <<255, 255, 255>>}

\* decode_image(data): cv2.imdecode gives None for bytes that are no image
DecodeImage(data) ==
    IF data = <<>> THEN None
    ELSE IF data = JpegA THEN Some(MkFrame(2, 2, "a"))
    ELSE IF data = JpegB THEN Some(MkFrame(1, 2, "b"))
    ELSE None

ColourByte(c) == CASE c = "a" -> 10 [] c = "b" -> 11 [] OTHER -> 12

\* encode_image(image, quality) when cv2.imencode succeeds
EncodeImage(f) ==
    <<255, f.h, f.w>> \o [i \in 1 .. f.h * f.w |->
                             ColourByte(f.px[<<(i - 1) \div f.w, (i - 1) % f.w>>])]

\* send_frame(conn, payload): the length, then the bytes
SendFrame(data) == [len |-> Len(data), data |-> data]

\* a decode_mask without the length test: missing bytes read as zero
DecodeMaskAnyLength(data, h, w) ==
    IF data = <<>> THEN None
    ELSE Some(MkMask(h, w, {p \in Grid(h, w) :
                               /\ p[1] * w + p[2] + 1 <= Len(data)
                               /\ data[p[1] * w + p[2] + 1] # 0}))

\* decode_mask(data, shape)
DecodeMask(data, h, w) ==
    IF data = <<>> THEN None
    ELSE IF Len(data) # h * w THEN None
    ELSE Some(MkMask(h, w, {p \in Grid(h, w) : data[p[1] * w + p[2] + 1] # 0}))

\* cv2.GaussianBlur(prior, (15, 15), 0) then cv2.threshold(.., 32, 255, BINARY):
\* a binary mask of the same shape; blurring can wipe small regions out and
\* spread large ones, an all-zero mask stays zero and a full one stays full
BlurThreshold(m) ==
    LET full == MkMask(m.h, m.w, Grid(m.h, m.w))
    IN  {r \in {ZeroMask(m.h, m.w), m, full} :
            /\ (m.px = {} => r.px = {})
            /\ (m.px = full.px => r.px = full.px)}

\* ------------------------------------------------------------------
\* The servers: state
\* ------------------------------------------------------------------

Sessions == {"s1", "s2"}

\* Quest-PC_Server.py, tcp_inpaint_server_skeleton.py,
\* tcp_inpaint_server_rtmdet_only.py, tcp_inpaint_debug_dump.py
Variants == {"quest", "skeleton", "rtmdet_only", "debug_dump"}

VARIABLES
    variant,        \* which server runs
    cfg,            \* the inpainter's configuration and the debug options
    pc,             \* where each connection's handler thread is
    infer_lock,     \* the server's infer_lock: "free" or its holder
    inpainter_lock, \* the inpainter's _lock: "free" or its holder
    prev_mask,      \* RTMDetInpainterStable._prev_mask
    prev_ttl,       \* RTMDetInpainterStable._prev_ttl
    hdr,            \* <<img_length, mask_length>> of the frame being handled
    payload,        \* its image bytes
    mask_payload,   \* its mask bytes
    image,          \* the decoded frame (the caller's array)
    prior_mask,     \* the hint mask handed to inpaint
    call,           \* locals of inpaint between the detector and the fill call
    processed,      \* the frame to encode
    resp,           \* the response being sent
    frame_index,    \* handle_client's frame_index
    note,           \* what went wrong while handling the current frame
    hdrs,           \* history: headers with a non-zero image length read
    complete,       \* history: complete frames received
    sent,           \* history: responses sent
    frame_bytes,    \* history: bytes consumed for the current frame
    zero_hdr,       \* history: the handler read a header with image length 0
    own_prev,       \* history: the remembered mask of a stabilizer of its own
    own_ttl,        \* history: the persistence of a stabilizer of its own
    run,            \* history: empty detections since the last non-empty one
    last_det,       \* history: the session's last non-empty detected mask
    chosen,         \* history: the mask the stabilizer chose for the frame
    pipe            \* the last direct call of a pipeline (library use)

vars == <<variant, cfg, pc, infer_lock, inpainter_lock, prev_mask, prev_ttl, hdr,
          payload, mask_payload, image, prior_mask, call, processed, resp,
          frame_index, note, hdrs, complete, sent, frame_bytes, zero_hdr,
          own_prev, own_ttl, run, last_det, chosen, pipe>>

stabVars == <<prev_mask, prev_ttl>>

ghostStab == <<own_prev, own_ttl, run, last_det, chosen>>

frameVars == <<hdr, payload, mask_payload, image, prior_mask, call, processed, resp>>

histVars == <<hdrs, complete, sent, frame_bytes, zero_hdr>>

lockVars == <<infer_lock, inpainter_lock>>

\* the header is one length (image only) or two (image, mask)
HeaderBytes(v) == IF v = "quest" THEN 4 ELSE 8

UsesStable(v) == v = "rtmdet_only"

\* the inpainter configurations the servers are run with
ServerConfigs ==
    [target_labels : {{"person"}}, score_threshold : {30},
     inference_size : {None}, min_area : {0}, mask_close : {0}, mask_dilate : {1},
     keep_frames : {1, 2}, roi_margin : {1},
     debug_on : BOOLEAN, debug_every : {1, 2}]

\* what the detector may answer for an h-by-w input in the server runs
ServerDetections(h, w) ==
    {[label |-> 0, score |-> 90, mask |-> MkMask(h, w, {<<0, 0>>})],
     [label |-> 0, score |-> 90, mask |-> MkMask(h, w, {<<0, w - 1>>})],
     [label |-> 0, score |-> 20, mask |-> MkMask(h, w, {<<0, 0>>})]}

ServerResults(h, w) ==
    {[kind |-> "nopred", preds |-> <<>>]}
        \cup {[kind |-> "preds", preds |-> <<d>>] : d \in ServerDetections(h, w)}

NoCall == [path |-> "copy", bbox |-> <<0, 0, 0, 0>>,
           fill_img |-> MkFrame(0, 0, "a"), fill_mask |-> ZeroMask(0, 0)]

NoPipe == [op |-> "none"]

Init ==
    /\ variant \in Variants
    /\ cfg \in {c \in ServerConfigs :
                  /\ (variant # "debug_dump" => ~c.debug_on)
                  /\ (~c.debug_on => c.debug_every = 1)
                  /\ (~UsesStable(variant) => c.keep_frames = 2)}
    /\ pc = [s \in Sessions |-> "idle"]
    /\ infer_lock = "free"
    /\ inpainter_lock = "free"
    /\ prev_mask = None
    /\ prev_ttl = 0
    /\ hdr = [s \in Sessions |-> <<0, 0>>]
    /\ payload = [s \in Sessions |-> <<>>]
    /\ mask_payload = [s \in Sessions |-> <<>>]
    /\ image = [s \in Sessions |-> None]
    /\ prior_mask = [s \in Sessions |-> None]
    /\ call = [s \in Sessions |-> NoCall]
    /\ processed = [s \in Sessions |-> None]
    /\ resp = [s \in Sessions |-> None]
    /\ frame_index = [s \in Sessions |-> 0]
    /\ note = [s \in Sessions |-> {}]
    /\ hdrs = [s \in Sessions |-> 0]
    /\ complete = [s \in Sessions |-> 0]
    /\ sent = [s \in Sessions |-> 0]
    /\ frame_bytes = [s \in Sessions |-> 0]
    /\ zero_hdr = [s \in Sessions |-> FALSE]
    /\ own_prev = [s \in Sessions |-> None]
    /\ own_ttl = [s \in Sessions |-> 0]
    /\ run = [s \in Sessions |-> -1]
    /\ last_det = [s \in Sessions |-> None]
    /\ chosen = [s \in Sessions |-> None]
    /\ pipe = NoPipe

\* ------------------------------------------------------------------
\* handle_client: receiving a frame
\* ------------------------------------------------------------------

Upd(f, s, v) == [f EXCEPT ![s] = v]

ImageLengths == {0} \cup {Len(p) : p \in Payloads}

MaskLengths(v) == IF v = "quest" THEN {0} ELSE {0} \cup {Len(m) : m \in MaskPayloads}

FramesOf(s) == IF s = "s1" THEN MaxFrames ELSE 1

\* the locals of the loop body are dead once its frame is done
FrameDone(s) ==
    /\ hdr' = Upd(hdr, s, <<0, 0>>)
    /\ payload' = Upd(payload, s, <<>>)
    /\ mask_payload' = Upd(mask_payload, s, <<>>)
    /\ image' = Upd(image, s, None)
    /\ prior_mask' = Upd(prior_mask, s, None)
    /\ call' = Upd(call, s, NoCall)
    /\ processed' = Upd(processed, s, None)
    /\ resp' = Upd(resp, s, None)
    /\ note' = Upd(note, s, {})
    /\ chosen' = Upd(chosen, s, None)

\* server.accept() and the start of the connection's thread
Accept(s) ==
    /\ pc[s] = "idle"
    /\ pc' = Upd(pc, s, "recv_header")
    /\ UNCHANGED <<variant, cfg, lockVars, stabVars, frameVars, frame_index, note,
                   histVars, ghostStab, pipe>>

\* a length test that lets the length 0 through
InvalidLengthNegativeOnly(il) == il < 0

\* if img_length <= 0: (the length is unsigned on the wire)
InvalidLength(il) == il <= 0

\* header = recv_exact(conn, 4 or 8); if img_length <= 0: break
RecvHeader(s) ==
    /\ pc[s] = "recv_header"
    /\ \E il \in ImageLengths, ml \in MaskLengths(variant) :
          /\ il > 0 => hdrs[s] < FramesOf(s)
          /\ hdr' = Upd(hdr, s, <<il, ml>>)
          /\ frame_bytes' = Upd(frame_bytes, s, HeaderBytes(variant))
          /\ zero_hdr' = Upd(zero_hdr, s, zero_hdr[s] \/ il = 0)
          /\ IF InvalidLength(il)
             THEN /\ pc' = Upd(pc, s, "closed")
                  /\ hdrs' = hdrs
             ELSE /\ pc' = Upd(pc, s, "recv_payload")
                  /\ hdrs' = Upd(hdrs, s, hdrs[s] + 1)
    /\ UNCHANGED <<variant, cfg, lockVars, stabVars, payload, mask_payload, image,
                   prior_mask, call, processed, resp, note, frame_index, complete,
                   sent, ghostStab, pipe>>

\* a handler that reads the payload and leaves the mask bytes in the stream
RecvPayloadOnly(s) ==
    /\ pc[s] = "recv_payload"
    /\ \E p \in Payloads :
          /\ Len(p) = hdr[s][1]
          /\ payload' = Upd(payload, s, p)
          /\ frame_bytes' = Upd(frame_bytes, s, frame_bytes[s] + Len(p))
    /\ pc' = Upd(pc, s, "decode")
    /\ complete' = Upd(complete, s, complete[s] + 1)
    /\ UNCHANGED <<variant, cfg, lockVars, stabVars, hdr, mask_payload, image,
                   prior_mask, call, processed, resp, frame_index, note, hdrs, sent,
                   zero_hdr, ghostStab, pipe>>

\* payload = recv_exact(conn, img_length)
RecvPayload(s) ==
    /\ pc[s] = "recv_payload"
    /\ \E p \in Payloads :
          /\ Len(p) = hdr[s][1]
          /\ payload' = Upd(payload, s, p)
          /\ frame_bytes' = Upd(frame_bytes, s, frame_bytes[s] + Len(p))
    /\ IF variant # "quest" /\ hdr[s][2] > 0
       THEN /\ pc' = Upd(pc, s, "recv_mask")
            /\ complete' = complete
       ELSE /\ pc' = Upd(pc, s, "decode")
            /\ complete' = Upd(complete, s, complete[s] + 1)
    /\ UNCHANGED <<variant, cfg, lockVars, stabVars, hdr, mask_payload, image,
                   prior_mask, call, processed, resp, frame_index, note, hdrs, sent,
                   zero_hdr, ghostStab, pipe>>

\* mask_payload = recv_exact(conn, mask_length) if mask_length > 0 else b"";
\* the RTMDet-only server reads the bytes and drops them
RecvMask(s) ==
    /\ pc[s] = "recv_mask"
    /\ \E m \in MaskPayloads :
          /\ Len(m) = hdr[s][2]
          /\ mask_payload' = Upd(mask_payload, s, IF UsesStable(variant) THEN <<>> ELSE m)
          /\ frame_bytes' = Upd(frame_bytes, s, frame_bytes[s] + Len(m))
    /\ pc' = Upd(pc, s, "decode")
    /\ complete' = Upd(complete, s, complete[s] + 1)
    /\ UNCHANGED <<variant, cfg, lockVars, stabVars, hdr, payload, image, prior_mask,
                   call, processed, resp, frame_index, note, hdrs, sent, zero_hdr,
                   ghostStab, pipe>>

\* a handler that answers the partial frame before it closes
PeerClosesAnswered(s) ==
    /\ pc[s] \in {"recv_header", "recv_payload", "recv_mask"}
    /\ pc' = Upd(pc, s, "closed")
    /\ FrameDone(s)
    /\ sent' = Upd(sent, s, sent[s] + 1)
    /\ UNCHANGED <<variant, cfg, lockVars, stabVars, frame_index, hdrs, complete,
                   frame_bytes, zero_hdr, own_prev, own_ttl, run, last_det, pipe>>

\* recv_exact raises ConnectionError: the peer closed; finally: conn.close()
PeerCloses(s) ==
    /\ pc[s] \in {"recv_header", "recv_payload", "recv_mask"}
    /\ pc' = Upd(pc, s, "closed")
    /\ FrameDone(s)
    /\ UNCHANGED <<variant, cfg, lockVars, stabVars, frame_index, histVars,
                   own_prev, own_ttl, run, last_det, pipe>>

\* the hint handed to inpaint: decode_mask, then blur and threshold
PriorChoices(v, mp, img) ==
    IF v \in {"skeleton", "debug_dump"} /\ mp # <<>>
    THEN LET dm == DecodeMask(mp, img.h, img.w)
         IN  IF dm = None THEN {None} ELSE {Some(r) : r \in BlurThreshold(dm[1])}
    ELSE {None}

\* an echo that announces and writes no bytes
EchoResponseEmpty(data) == Some(SendFrame(<<>>))

\* send_frame(conn, payload) of the two echo branches: what is written
EchoResponse(data) == Some(SendFrame(data))

\* a decode-failure branch that goes on to the next header without answering
EchoUndecodableSkipped(s) ==
    /\ resp' = resp
    /\ note' = Upd(note, s, note[s] \cup {"decode_fail"})
    /\ pc' = Upd(pc, s, "recv_header")

\* if image is None: send_frame(conn, payload); continue
EchoUndecodable(s) ==
    /\ resp' = Upd(resp, s, EchoResponse(payload[s]))
    /\ note' = Upd(note, s, note[s] \cup {"decode_fail"})
    /\ pc' = Upd(pc, s, "send")

\* image = decode_image(payload); a payload that does not decode is echoed
Decode(s) ==
    /\ pc[s] = "decode"
    /\ LET img == DecodeImage(payload[s])
       IN  IF img = None
           THEN /\ EchoUndecodable(s)
                /\ UNCHANGED <<image, prior_mask>>
           ELSE /\ image' = Upd(image, s, img)
                /\ \E pm \in PriorChoices(variant, mask_payload[s], img[1]) :
                      prior_mask' = Upd(prior_mask, s, pm)
                /\ pc' = Upd(pc, s, "lock_wait")
                /\ UNCHANGED <<resp, note>>
    /\ mask_payload' = Upd(mask_payload, s, <<>>)
    /\ UNCHANGED <<variant, cfg, lockVars, stabVars, hdr, payload, call, processed,
                   frame_index, histVars, ghostStab, pipe>>

\* ------------------------------------------------------------------
\* handle_client: the inference section
\* ------------------------------------------------------------------

\* where the handler goes once processed is set: the debug dump of
\* tcp_inpaint_debug_dump.py re-runs the detector every debug_every frames
AfterInpaint(s) ==
    IF /\ variant = "debug_dump"
       /\ cfg.debug_on
       /\ frame_index[s] % Max2(1, cfg.debug_every) = 0
    THEN "debug_wait"
    ELSE "encode"

\* a handler that acquires the lock by hand and does not release it
InferLockOnExitKept(s) == s

\* the end of `with infer_lock:`, by return or by exception: the lock is free
InferLockOnExit(s) == "free"

\* with infer_lock:
AcquireInferLock(s) ==
    /\ pc[s] = "lock_wait"
    /\ infer_lock = "free"
    /\ infer_lock' = s
    /\ pc' = Upd(pc, s, "run_inference")
    /\ UNCHANGED <<variant, cfg, inpainter_lock, stabVars, frameVars, frame_index, note,
                   histVars, ghostStab, pipe>>

\* _run_inference: with self._lock: -- the detector call starts
EnterDetector(s) ==
    /\ pc[s] = "run_inference"
    /\ inpainter_lock = "free"
    /\ inpainter_lock' = s
    /\ pc' = Upd(pc, s, "detecting")
    /\ UNCHANGED <<variant, cfg, infer_lock, stabVars, frameVars, frame_index, note,
                   histVars, ghostStab, pipe>>

\* the shape of the image the handler's inpaint call hands to the detector
DetectorInputShape(s) ==
    IF UsesStable(variant)
    THEN StableInferShape(image[s][1], cfg)
    ELSE BaseInferShape(image[s][1], BaseEntry(image[s][1], prior_mask[s]), cfg)

\* the locals of the hint-aware inpaint at its fill call
BaseCall(img, fm) ==
    [path |-> IF fm = None THEN "copy" ELSE "full", bbox |-> <<0, 0, 0, 0>>,
     fill_img |-> img, fill_mask |-> IF fm = None THEN ZeroMask(img.h, img.w) ELSE fm[1]]

\* the locals of the session inpaint at its fill call
StableCall(plan) ==
    [path |-> plan.path, bbox |-> plan.bbox,
     fill_img |-> plan.fill_img, fill_mask |-> plan.fill_mask]

\* the persistence history of one session after a frame whose detected mask is det
RunAfter(r, det, keep_frames) ==
    IF MaskAny(det) THEN 0
    ELSE IF r >= 0 THEN Min2(r + 1, Max2(keep_frames, 0) + 1)
    ELSE r

\* the detector returns; inpaint runs on to its fill call, or returns a copy
DetectorReturns(s) ==
    /\ pc[s] = "detecting"
    /\ inpainter_lock' = "free"
    /\ \E result \in ServerResults(DetectorInputShape(s)[1], DetectorInputShape(s)[2]) :
          LET img == image[s][1]
              plan == StablePlan(img, result, prev_mask, prev_ttl, cfg)
              own == StabilizerStep(plan.det_mask, own_prev[s], own_ttl[s], cfg.keep_frames)
              c == IF UsesStable(variant)
                   THEN StableCall(plan)
                   ELSE BaseCall(img, BaseFillMask(img, BaseEntry(img, prior_mask[s]),
                                                   result, cfg))
          IN  /\ call' = Upd(call, s, c)
              /\ IF UsesStable(variant)
                 THEN /\ prev_mask' = plan.prev_mask
                      /\ prev_ttl' = plan.prev_ttl
                      /\ own_prev' = Upd(own_prev, s, own.prev_mask)
                      /\ own_ttl' = Upd(own_ttl, s, own.prev_ttl)
                      /\ run' = Upd(run, s, RunAfter(run[s], plan.det_mask, cfg.keep_frames))
                      /\ last_det' = Upd(last_det, s, IF MaskAny(plan.det_mask)
                                                      THEN Some(plan.det_mask)
                                                      ELSE last_det[s])
                      /\ chosen' = Upd(chosen, s, Some(plan.chosen))
                 ELSE UNCHANGED <<stabVars, ghostStab>>
              /\ IF c.path = "copy"
                 THEN /\ processed' = Upd(processed, s, image[s])
                      /\ infer_lock' = InferLockOnExit(s)
                      /\ pc' = Upd(pc, s, AfterInpaint(s))
                 ELSE /\ processed' = processed
                      /\ infer_lock' = infer_lock
                      /\ pc' = Upd(pc, s, "filling")
    /\ prior_mask' = Upd(prior_mask, s, None)
    /\ UNCHANGED <<variant, cfg, hdr, payload, mask_payload, image, resp, frame_index,
                   note, histVars, pipe>>

\* a handler without the except clause: the exception ends the session
InferenceFailedUncaught(s, what) ==
    /\ processed' = processed
    /\ note' = Upd(note, s, note[s] \cup {what})
    /\ pc' = Upd(pc, s, "closed")

\* except Exception as exc: processed = image -- the handler goes on
InferenceFailed(s, what) ==
    /\ processed' = Upd(processed, s, image[s])
    /\ note' = Upd(note, s, note[s] \cup {what})
    /\ pc' = Upd(pc, s, AfterInpaint(s))

\* a pipeline that counts the failed frame as a frame without detections
StabilizerOnDetectorErrorCounted(pm, ttl, keep_frames) ==
    [prev_mask |-> pm, prev_ttl |-> Max2(ttl - 1, 0)]

\* the stabilizer of the session pipeline when _run_inference raises: the
\* exception leaves inpaint before the persistence step is reached
StabilizerOnDetectorError(pm, ttl, keep_frames) == [prev_mask |-> pm, prev_ttl |-> ttl]

\* the detector raises: both with-blocks release, the handler catches
DetectorRaises(s) ==
    /\ pc[s] = "detecting"
    /\ inpainter_lock' = "free"
    /\ infer_lock' = InferLockOnExit(s)
    /\ InferenceFailed(s, "detector_raised")
    /\ LET st == StabilizerOnDetectorError(prev_mask, prev_ttl, cfg.keep_frames)
       IN  /\ prev_mask' = IF UsesStable(variant) THEN st.prev_mask ELSE prev_mask
           /\ prev_ttl' = IF UsesStable(variant) THEN st.prev_ttl ELSE prev_ttl
    /\ run' = Upd(run, s, -1)
    /\ prior_mask' = Upd(prior_mask, s, None)
    /\ UNCHANGED <<variant, cfg, hdr, payload, mask_payload, image, call, resp,
                   frame_index, histVars, own_prev, own_ttl, last_det, chosen, pipe>>

\* cv2.inpaint returns; inpaint returns the repaired frame
FillReturns(s) ==
    /\ pc[s] = "filling"
    /\ FillFits(call[s].fill_img, call[s].fill_mask)
    /\ LET filled == FillOp(call[s].fill_img, call[s].fill_mask)
           fin == IF UsesStable(variant)
                  THEN StableFinish(image[s][1], call[s], filled)
                  ELSE BaseFinish(image[s][1], Some(call[s].fill_mask), filled)
       IN  /\ image' = Upd(image, s, Some(fin.input))
           /\ processed' = Upd(processed, s, Some(fin.out))
    /\ infer_lock' = InferLockOnExit(s)
    /\ pc' = Upd(pc, s, AfterInpaint(s))
    /\ call' = Upd(call, s, NoCall)
    /\ UNCHANGED <<variant, cfg, inpainter_lock, stabVars, hdr, payload, mask_payload,
                   prior_mask, resp, frame_index, note, histVars, ghostStab, pipe>>

\* cv2.inpaint raises (a mask of another size, or any failure of its own)
FillRaises(s) ==
    /\ pc[s] = "filling"
    /\ infer_lock' = InferLockOnExit(s)
    /\ InferenceFailed(s, "fill_raised")
    /\ call' = Upd(call, s, NoCall)
    /\ UNCHANGED <<variant, cfg, inpainter_lock, stabVars, hdr, payload, mask_payload,
                   image, prior_mask, resp, frame_index, histVars, ghostStab, pipe>>

\* a debug dump that called the inferencer directly, without _run_inference
DebugEnterUnlocked(s) ==
    /\ pc[s] = "debug_wait"
    /\ pc' = Upd(pc, s, "debug_detecting")
    /\ UNCHANGED <<variant, cfg, infer_lock, inpainter_lock, stabVars, frameVars,
                   frame_index, note, histVars, ghostStab, pipe>>

\* the debug dump: result = inpainter._run_inference(rgb_image)
DebugEnter(s) ==
    /\ pc[s] = "debug_wait"
    /\ inpainter_lock = "free"
    /\ inpainter_lock' = s
    /\ pc' = Upd(pc, s, "debug_detecting")
    /\ UNCHANGED <<variant, cfg, infer_lock, stabVars, frameVars, frame_index, note,
                   histVars, ghostStab, pipe>>

\* the debug re-inference returns or raises (except Exception: print)
DebugLeave(s) ==
    /\ pc[s] = "debug_detecting"
    /\ inpainter_lock' = "free"
    /\ pc' = Upd(pc, s, "encode")
    /\ UNCHANGED <<variant, cfg, infer_lock, stabVars, frameVars, frame_index, note,
                   histVars, ghostStab, pipe>>

\* ------------------------------------------------------------------
\* handle_client: answering
\* ------------------------------------------------------------------

\* encoded = encode_image(processed, jpeg_quality); echo when it is None
Encode(s) ==
    /\ pc[s] = "encode"
    /\ \E ok \in BOOLEAN :
          IF ok
          THEN /\ resp' = Upd(resp, s, Some(SendFrame(EncodeImage(processed[s][1]))))
               /\ note' = note
          ELSE /\ resp' = Upd(resp, s, EchoResponse(payload[s]))
               /\ note' = Upd(note, s, note[s] \cup {"encode_fail"})
    /\ pc' = Upd(pc, s, "send")
    /\ image' = Upd(image, s, None)
    /\ processed' = Upd(processed, s, None)
    /\ UNCHANGED <<variant, cfg, lockVars, stabVars, hdr, payload, mask_payload,
                   prior_mask, call, frame_index, histVars, ghostStab, pipe>>

\* frame_index += 1 is reached only past the last send_frame of the loop body
\* (kept for the debug-dump server, where it decides the re-inference)
CountsFrame(v, n) ==
    v = "debug_dump" /\ n \cap {"decode_fail", "encode_fail"} = {}

\* send_frame(conn, ...) completes; the loop goes back to the next header
Send(s) ==
    /\ pc[s] = "send"
    /\ sent' = Upd(sent, s, sent[s] + 1)
    /\ frame_index' = Upd(frame_index, s,
                          IF CountsFrame(variant, note[s])
                          THEN frame_index[s] + 1 ELSE frame_index[s])
    /\ pc' = Upd(pc, s, "recv_header")
    /\ frame_bytes' = Upd(frame_bytes, s, 0)
    /\ FrameDone(s)
    /\ UNCHANGED <<variant, cfg, lockVars, stabVars, hdrs, complete, zero_hdr,
                   own_prev, own_ttl, run, last_det, pipe>>

\* sendall raises: the peer is gone; finally: conn.close()
SendFails(s) ==
    /\ pc[s] = "send"
    /\ pc' = Upd(pc, s, "closed")
    /\ FrameDone(s)
    /\ UNCHANGED <<variant, cfg, lockVars, stabVars, frame_index, histVars,
                   own_prev, own_ttl, run, last_det, pipe>>

Next ==
    \E s \in Sessions :
        \/ Accept(s)
        \/ RecvHeader(s)
        \/ RecvPayload(s)
        \/ RecvMask(s)
        \/ PeerCloses(s)
        \/ Decode(s)
        \/ AcquireInferLock(s)
        \/ EnterDetector(s)
        \/ DetectorReturns(s)
        \/ DetectorRaises(s)
        \/ FillReturns(s)
        \/ FillRaises(s)
        \/ DebugEnter(s)
        \/ DebugLeave(s)
        \/ Encode(s)
        \/ Send(s)
        \/ SendFails(s)

Spec == Init /\ [][Next]_vars

\* ------------------------------------------------------------------
\* The servers with calls that return, peers that read, and fair locks
\* ------------------------------------------------------------------

\* the steps a handler thread takes on its own: decoding, the calls into
\* the detector and the fill operator coming back, encoding
Compute(s) ==
    \/ Decode(s)
    \/ DetectorRaises(s)
    \/ DetectorReturns(s)
    \/ FillRaises(s)
    \/ FillReturns(s)
    \/ DebugLeave(s)
    \/ Encode(s)

\* taking a lock: infer_lock, or the inpainter's lock on either path
TakeLock(s) == AcquireInferLock(s) \/ EnterDetector(s) \/ DebugEnter(s)

\* the four servers, the RTMDet-only one built with keep_frames 1, the
\* debug-dump one dumping every frame
FairInit ==
    /\ Init
    /\ UsesStable(variant) => cfg.keep_frames = 1
    /\ variant = "debug_dump" => (cfg.debug_on /\ cfg.debug_every = 1)

\* the servers while every peer reads its responses: sendall never fails
FairNext ==
    \E s \in Sessions :
        \/ Accept(s)
        \/ RecvHeader(s)
        \/ RecvPayload(s)
        \/ RecvMask(s)
        \/ PeerCloses(s)
        \/ TakeLock(s)
        \/ Compute(s)
        \/ Send(s)

\* a running thread goes on, a response is read by the peer, and a thread
\* that finds a lock free again and again gets it; nothing is assumed of
\* what the peers send
FairSpec ==
    /\ FairInit
    /\ [][FairNext]_vars
    /\ \A s \in Sessions :
          /\ WF_vars(Compute(s) \/ Send(s))
          /\ SF_vars(TakeLock(s))

\* ------------------------------------------------------------------
\* The pipelines called directly, one call after the other, on one
\* inpainter object (no server, one thread)
\* ------------------------------------------------------------------

\* frame sizes <<h, w>>: too low for a hint crop, a crop that is the whole
\* frame, a crop that is a part of the frame
PipeShapes == {<<3, 4>>, <<4, 4>>, <<4, 20>>}

PipePriors(h, w) ==
    {None, Some(ZeroMask(h, w)), Some(MkMask(h, w, {<<0, 0>>})),
     Some(MkMask(h, w, {<<h - 1, w - 1>>})), Some(MkMask(2, 2, {<<0, 0>>}))}

\* detections at the inference resolution ih-by-iw: accepted ones, a label
\* outside the target set, a score below and one at the threshold, a label
\* without a class name whose mask has another resolution
PipeDetection(n, ih, iw) ==
    CASE n = 1 -> [label |-> 0, score |-> 90, mask |-> MkMask(ih, iw, {<<0, 0>>})]
      [] n = 2 -> [label |-> 0, score |-> 90, mask |-> MkMask(ih, iw, {<<ih - 1, iw - 1>>})]
      [] n = 3 -> [label |-> 1, score |-> 90, mask |-> MkMask(ih, iw, {<<0, iw - 1>>})]
      [] n = 4 -> [label |-> 0, score |-> 20, mask |-> MkMask(ih, iw, {<<ih - 1, 0>>})]
      [] n = 5 -> [label |-> 0, score |-> 30, mask |-> MkMask(ih, iw, {<<ih - 1, 0>>})]
      [] OTHER -> [label |-> 5, score |-> 90, mask |-> MkMask(2, 2, {<<1, 1>>})]

PipeResults(ih, iw) ==
    {[kind |-> "raise", preds |-> <<>>], [kind |-> "nopred", preds |-> <<>>],
     [kind |-> "preds", preds |-> <<>>]}
        \cup {[kind |-> "preds", preds |-> <<PipeDetection(n, ih, iw)>>] : n \in 1 .. 6}
        \cup {[kind |-> "preds",
               preds |-> <<PipeDetection(n[1], ih, iw), PipeDetection(n[2], ih, iw)>>] :
                 n \in {<<1, 2>>, <<1, 3>>, <<4, 6>>}}

\* <<min_area, mask_close, mask_dilate, keep_frames, roi_margin>>
PipePostChoices ==
    {<<0, 0, 0, 2, 0>>, <<2, 1, 1, 1, 1>>, <<0, 0, 2, 0, 1>>, <<0, 0, 0, -1, 0>>}

\* the object called: an RTMDetInpainter or an RTMDetInpainterStable
PipeObjects == {"RTMDetInpainter", "RTMDetInpainterStable"}

PipeConfigs ==
    {[target_labels |-> tl, score_threshold |-> 30, inference_size |-> is,
      min_area |-> pp[1], mask_close |-> pp[2], mask_dilate |-> pp[3],
      keep_frames |-> pp[4], roi_margin |-> pp[5],
      debug_on |-> FALSE, debug_every |-> 1] :
        tl \in {{}, {"person"}}, is \in {None, Some(<<4, 4>>), Some(<<8, 2>>)},
        pp \in PipePostChoices}

\* no server around the inpainter: no connection, no lock taken, no call made
NoServer ==
    /\ pc = [s \in Sessions |-> "idle"]
    /\ infer_lock = "free"
    /\ inpainter_lock = "free"
    /\ hdr = [s \in Sessions |-> <<0, 0>>]
    /\ payload = [s \in Sessions |-> <<>>]
    /\ mask_payload = [s \in Sessions |-> <<>>]
    /\ image = [s \in Sessions |-> None]
    /\ prior_mask = [s \in Sessions |-> None]
    /\ call = [s \in Sessions |-> NoCall]
    /\ processed = [s \in Sessions |-> None]
    /\ resp = [s \in Sessions |-> None]
    /\ frame_index = [s \in Sessions |-> 0]
    /\ note = [s \in Sessions |-> {}]
    /\ hdrs = [s \in Sessions |-> 0]
    /\ complete = [s \in Sessions |-> 0]
    /\ sent = [s \in Sessions |-> 0]
    /\ frame_bytes = [s \in Sessions |-> 0]
    /\ zero_hdr = [s \in Sessions |-> FALSE]
    /\ own_prev = [s \in Sessions |-> None]
    /\ own_ttl = [s \in Sessions |-> 0]
    /\ run = [s \in Sessions |-> -1]
    /\ last_det = [s \in Sessions |-> None]
    /\ chosen = [s \in Sessions |-> None]
    /\ pipe = NoPipe

PipeInit ==
    /\ variant \in PipeObjects
    /\ cfg \in {c \in PipeConfigs :
                  variant = "RTMDetInpainter" =>
                      <<c.min_area, c.mask_close, c.mask_dilate, c.keep_frames,
                        c.roi_margin>> = <<0, 0, 0, 2, 0>>}
    /\ prev_mask = None
    /\ prev_ttl = 0
    /\ NoServer

serverVars == <<pc, lockVars, frameVars, frame_index, note, histVars, ghostStab>>

\* the record of one call: its arguments, whether it returned, the caller's
\* array afterwards, the returned frame, and what the fill operator was given
PipeRecord(op, img, prior, result, returned, input, out, fill) ==
    [op |-> op, image |-> img, prior |-> prior, result |-> result,
     returned |-> returned, input |-> input, out |-> out, fill |-> fill]

FillArgs(img, mask) == Some([img |-> img, mask |-> mask])

\* RTMDetInpainter.inpaint(image_bgr, prior_mask) as one call
BaseInpaint(img, prior, result, c) ==
    LET e == BaseEntry(img, prior)
        fm == BaseFillMask(img, e, result, c)
        fin == BaseFinish(img, fm, IF fm = None THEN img ELSE FillOp(img, fm[1]))
    IN  IF result.kind = "raise"
        THEN PipeRecord("base", img, prior, result, FALSE, img, img, None)
        ELSE IF fm # None /\ ~FillFits(img, fm[1])
             THEN PipeRecord("base", img, prior, result, FALSE, img, img, FillArgs(img, fm[1]))
             ELSE PipeRecord("base", img, prior, result, TRUE, fin.input, fin.out,
                             IF fm = None THEN None ELSE FillArgs(img, fm[1]))

\* a session pipeline that answers a failing detector with the input frame
StableInpaintSwallowing(img, result, plan) ==
    LET fits == FillFits(plan.fill_img, plan.fill_mask)
        fin == StableFinish(img, plan,
                            IF fits THEN FillOp(plan.fill_img, plan.fill_mask) ELSE img)
        fill == IF plan.path = "copy" THEN None ELSE FillArgs(plan.fill_img, plan.fill_mask)
    IN  IF result.kind = "raise"
        THEN PipeRecord("stable", img, None, result, TRUE, img, img, None)
        ELSE IF plan.path # "copy" /\ ~fits
             THEN PipeRecord("stable", img, None, result, FALSE, img, img, fill)
             ELSE PipeRecord("stable", img, None, result, TRUE, fin.input, fin.out, fill)

\* RTMDetInpainterStable.inpaint(image_bgr) as one call, given the plan made
\* from the detector's answer
StableInpaint(img, result, plan) ==
    LET fits == FillFits(plan.fill_img, plan.fill_mask)
        fin == StableFinish(img, plan,
                            IF fits THEN FillOp(plan.fill_img, plan.fill_mask) ELSE img)
        fill == IF plan.path = "copy" THEN None ELSE FillArgs(plan.fill_img, plan.fill_mask)
    IN  IF result.kind = "raise"
        THEN PipeRecord("stable", img, None, result, FALSE, img, img, None)
        ELSE IF plan.path # "copy" /\ ~fits
             THEN PipeRecord("stable", img, None, result, FALSE, img, img, fill)
             ELSE PipeRecord("stable", img, None, result, TRUE, fin.input, fin.out, fill)

\* a direct call of the hint-aware pipeline
LibBase ==
    /\ variant = "RTMDetInpainter"
    /\ pipe = NoPipe
    /\ \E sh \in PipeShapes :
          \E prior \in PipePriors(sh[1], sh[2]) :
             LET img == MkFrame(sh[1], sh[2], "a")
                 inf == BaseInferShape(img, BaseEntry(img, prior), cfg)
             IN  \E result \in PipeResults(inf[1], inf[2]) :
                    pipe' = BaseInpaint(img, prior, result, cfg)
    /\ UNCHANGED <<variant, cfg, stabVars, serverVars>>

\* a direct call of the session pipeline: the stabilizer is left alone when
\* the detector raises, and is updated before the fill call otherwise
LibStable ==
    /\ variant = "RTMDetInpainterStable"
    /\ pipe = NoPipe
    /\ \E sh \in PipeShapes :
          LET img == MkFrame(sh[1], sh[2], "a")
              inf == StableInferShape(img, cfg)
          IN  \E result \in PipeResults(inf[1], inf[2]) :
                 LET plan == StablePlan(img, result, prev_mask, prev_ttl, cfg)
                 IN  /\ pipe' = StableInpaint(img, result, plan)
                     /\ prev_mask' = IF result.kind = "raise" THEN prev_mask
                                     ELSE plan.prev_mask
                     /\ prev_ttl' = IF result.kind = "raise" THEN prev_ttl
                                    ELSE plan.prev_ttl
    /\ UNCHANGED <<variant, cfg, serverVars>>

\* the caller is done with the result of the call
LibDone ==
    /\ pipe # NoPipe
    /\ pipe' = NoPipe
    /\ UNCHANGED <<variant, cfg, stabVars, serverVars>>

PipeNext == LibBase \/ LibStable \/ LibDone

PipeSpec == PipeInit /\ [][PipeNext]_vars

\* the answers of a detector that finds nothing: no predictions at all, or
\* an empty list of them
QuietResults == {[kind |-> "nopred", preds |-> <<>>], [kind |-> "preds", preds |-> <<>>]}

\* the first of two calls in a row on the same frame, no hint, the detector
\* finding nothing; `tracking` is the stabilizer before the call
LibQuiet ==
    /\ pipe = NoPipe
    /\ \E sh \in PipeShapes, quiet \in QuietResults :
          LET img == MkFrame(sh[1], sh[2], "a")
              stable == variant = "RTMDetInpainterStable"
              plan == StablePlan(img, quiet, prev_mask, prev_ttl, cfg)
          IN  /\ pipe' = [op |-> "quiet", image |-> img, result |-> quiet,
                          first |-> IF stable THEN StableInpaint(img, quiet, plan)
                                    ELSE BaseInpaint(img, None, quiet, cfg),
                          tracking |-> stable /\ prev_mask # None /\ prev_ttl > 0]
              /\ prev_mask' = IF stable THEN plan.prev_mask ELSE prev_mask
              /\ prev_ttl' = IF stable THEN plan.prev_ttl ELSE prev_ttl
    /\ UNCHANGED <<variant, cfg, serverVars>>

\* the second call, on the caller's array as the first call left it
LibQuietAgain ==
    /\ pipe.op = "quiet"
    /\ LET img == pipe.first.input
           stable == variant = "RTMDetInpainterStable"
           plan == StablePlan(img, pipe.result, prev_mask, prev_ttl, cfg)
       IN  /\ pipe' = [op |-> "twice", image |-> pipe.image, first |-> pipe.first,
                       second |-> IF stable THEN StableInpaint(img, pipe.result, plan)
                                  ELSE BaseInpaint(img, None, pipe.result, cfg),
                       tracking |-> pipe.tracking]
           /\ prev_mask' = IF stable THEN plan.prev_mask ELSE prev_mask
           /\ prev_ttl' = IF stable THEN plan.prev_ttl ELSE prev_ttl
    /\ UNCHANGED <<variant, cfg, serverVars>>

TwiceNext == LibStable \/ LibQuiet \/ LibQuietAgain \/ LibDone

TwiceSpec == PipeInit /\ [][TwiceNext]_vars

\* ------------------------------------------------------------------
\* The pipelines called directly, with the intermediate values of each
\* call on record
\* ------------------------------------------------------------------

\* frame sizes <<h, w>>: a single row, one too low for a hint crop, and one
\* the hint crop is a part of
StageShapes == {<<1, 4>>, <<3, 4>>, <<4, 20>>}

StagePriors(h, w) ==
    {None, Some(ZeroMask(h, w)), Some(MkMask(h, w, {<<0, 0>>})),
     Some(MkMask(h, w, {<<h - 1, w - 1>>}))}

\* detections at the inference resolution ih-by-iw: a blob of two pixels, a
\* single pixel, a blob and a single pixel far from it, a label outside the
\* target set, a score below and one at the threshold, a label without a
\* class name whose mask has another resolution
StageDetection(n, ih, iw) ==
    CASE n = 1 -> [label |-> 0, score |-> 90, mask |-> MkMask(ih, iw, {<<0, 0>>, <<0, 1>>})]
      [] n = 2 -> [label |-> 0, score |-> 90, mask |-> MkMask(ih, iw, {<<ih - 1, iw - 1>>})]
      [] n = 3 -> [label |-> 1, score |-> 90, mask |-> MkMask(ih, iw, {<<0, iw - 1>>})]
      [] n = 4 -> [label |-> 0, score |-> 20, mask |-> MkMask(ih, iw, {<<ih - 1, 0>>})]
      [] n = 5 -> [label |-> 0, score |-> 30, mask |-> MkMask(ih, iw, {<<ih - 1, 0>>})]
      [] OTHER -> [label |-> 5, score |-> 90, mask |-> MkMask(2, 2, {<<1, 1>>})]

StageResults(ih, iw) ==
    {[kind |-> "raise", preds |-> <<>>], [kind |-> "nopred", preds |-> <<>>],
     [kind |-> "preds", preds |-> <<>>]}
        \cup {[kind |-> "preds", preds |-> <<StageDetection(n, ih, iw)>>] : n \in 1 .. 6}
        \cup {[kind |-> "preds",
               preds |-> <<StageDetection(n[1], ih, iw), StageDetection(n[2], ih, iw)>>] :
                 n \in {<<1, 2>>, <<3, 5>>}}

\* <<min_area, mask_close, mask_dilate, keep_frames, roi_margin>>
StagePostChoices == {<<2, 0, 0, 2, 0>>, <<2, 1, 1, 1, 1>>, <<0, 0, 1, 2, 1>>}

\* inference_size is (width, height): none, the size of the wide frame, and
\* a size no frame has
StageConfigs ==
    {[target_labels |-> tl, score_threshold |-> 30, inference_size |-> is,
      min_area |-> pp[1], mask_close |-> pp[2], mask_dilate |-> pp[3],
      keep_frames |-> pp[4], roi_margin |-> pp[5],
      debug_on |-> FALSE, debug_every |-> 1] :
        tl \in {{}, {"person"}}, is \in {None, Some(<<20, 4>>), Some(<<4, 4>>)},
        pp \in StagePostChoices}

StageInit ==
    /\ variant \in PipeObjects
    /\ cfg \in {c \in StageConfigs :
                  variant = "RTMDetInpainter" =>
                      <<c.min_area, c.mask_close, c.mask_dilate, c.keep_frames,
                        c.roi_margin>> = <<2, 0, 0, 2, 0>>}
    /\ prev_mask = None
    /\ prev_ttl = 0
    /\ NoServer

\* a call of the session pipeline: besides the record of the call, the size
\* of the image handed to the detector, combined_mask, det_mask, the
\* stabilizer as the call found it, the mask after each of "Temporal
\* persistence", "Remove tiny blobs" and "Morphology", and the fill region
StageStable ==
    /\ variant = "RTMDetInpainterStable"
    /\ pipe = NoPipe
    /\ \E sh \in StageShapes :
          LET img == MkFrame(sh[1], sh[2], "a")
              inf == StableInferShape(img, cfg)
          IN  \E result \in StageResults(inf[1], inf[2]) :
                 \E plan \in {StablePlan(img, result, prev_mask, prev_ttl, cfg)} :
                     LET raised == result.kind = "raise"
                     IN
                     /\ pipe' = [op |-> "stable_stages",
                                 call |-> StableInpaint(img, result, plan),
                                 detector_input |-> inf,
                                 combined |-> BuildCombinedMask(PredsOf(result), inf[1], inf[2],
                                                                cfg.target_labels,
                                                                cfg.score_threshold),
                                 det_mask |-> plan.det_mask,
                                 before |-> [prev_mask |-> prev_mask, prev_ttl |-> prev_ttl],
                                 chosen |-> plan.chosen,
                                 filtered |-> RemoveTinyBlobs(plan.chosen, cfg.min_area),
                                 mask |-> plan.mask,
                                 path |-> plan.path,
                                 bbox |-> plan.bbox]
                     /\ prev_mask' = IF raised THEN prev_mask ELSE plan.prev_mask
                     /\ prev_ttl' = IF raised THEN prev_ttl ELSE plan.prev_ttl
    /\ UNCHANGED <<variant, cfg, serverVars>>

\* a call of the hint-aware pipeline: besides the record of the call, the
\* hint as the pipeline keeps it, crop_bounds, the size of the working image
\* and of the image handed to the detector, and combined_mask
StageBase ==
    /\ variant = "RTMDetInpainter"
    /\ pipe = NoPipe
    /\ \E sh \in StageShapes :
          \E prior \in StagePriors(sh[1], sh[2]) :
             \E e \in {BaseEntry(MkFrame(sh[1], sh[2], "a"), prior)} :
             LET img == MkFrame(sh[1], sh[2], "a")
                 inf == BaseInferShape(img, e, cfg)
             IN  \E result \in StageResults(inf[1], inf[2]) :
                    pipe' = [op |-> "base_stages",
                             call |-> BaseInpaint(img, prior, result, cfg),
                             hint |-> e.prior,
                             crop |-> e.crop,
                             working |-> <<e.wh, e.ww>>,
                             detector_input |-> inf,
                             combined |-> BuildCombinedMask(PredsOf(result), inf[1], inf[2],
                                                            cfg.target_labels,
                                                            cfg.score_threshold)]
    /\ UNCHANGED <<variant, cfg, stabVars, serverVars>>

StageNext == StageStable \/ StageBase \/ LibDone

StageSpec == StageInit /\ [][StageNext]_vars

\* ------------------------------------------------------------------
\* The mask operations of the pipelines, called one at a time
\* ------------------------------------------------------------------

\* the largest minimum area tried
MaxArea == 4

\* the masks handed to the small-component filter live on this grid
FilterShape == <<2, 4>>

\* one inpainter, its configuration of no concern to the operations
OpsInit ==
    /\ PipeInit
    /\ variant = "RTMDetInpainterStable"
    /\ cfg.target_labels = {} /\ cfg.inference_size = None /\ cfg.min_area = 0

\* "Remove tiny blobs": mask = self._filter_small_components(mask, min_area)
CallFilter ==
    /\ pipe = NoPipe
    /\ \E px \in SUBSET Grid(FilterShape[1], FilterShape[2]), a \in 1 .. MaxArea :
          LET mask == MkMask(FilterShape[1], FilterShape[2], px)
          IN  pipe' = [op |-> "filter", mask |-> mask, min_area |-> a,
                       out |-> RemoveTinyBlobs(mask, a)]
    /\ UNCHANGED <<variant, cfg, stabVars, serverVars>>

\* the largest ROI margin tried
MaxMargin == 2

\* the frames the ROI is computed on: a small one with every mask, and one
\* wider than the hint margin with masks near its corners
RoiShapes == {<<2, 3>>, <<4, 20>>}

RoiMasks(h, w) ==
    IF h * w <= 6 THEN SUBSET Grid(h, w)
    ELSE SUBSET {<<0, 0>>, <<1, w - 2>>, <<h - 1, w - 1>>}

\* the ROI of both pipelines for one mask: the session pipeline's, with the
\* mask as its detection and nothing else at work, and the crop the
\* hint-aware pipeline makes with the mask as its hint
CallRoi ==
    /\ pipe = NoPipe
    /\ \E sh \in RoiShapes, g \in 0 .. MaxMargin :
          \E px \in RoiMasks(sh[1], sh[2]) :
             LET img == MkFrame(sh[1], sh[2], "a")
                 mask == MkMask(sh[1], sh[2], px)
                 c == [cfg EXCEPT !.roi_margin = g, !.mask_close = 0, !.mask_dilate = 0,
                                  !.min_area = 0, !.keep_frames = 0]
                 result == [kind |-> "preds",
                            preds |-> <<[label |-> 0, score |-> 90, mask |-> mask]>>]
                 plan == StablePlan(img, result, None, 0, c)
                 e == BaseEntry(img, Some(mask))
             IN  pipe' = [op |-> "roi", mask |-> mask, margin |-> g,
                          path |-> plan.path, bbox |-> plan.bbox,
                          hint_margin |-> HintMargin(sh[1], sh[2]),
                          prior |-> e.prior, crop |-> e.crop]
    /\ UNCHANGED <<variant, cfg, stabVars, serverVars>>

\* the largest close and dilate radius tried
MaxRadius == 2

\* the frame the postprocessor is tried on
MorphShape == <<6, 6>>

\* the solid rectangle of the rows y0 .. y1 and the columns x0 .. x1
Rect(y0, y1, x0, x1) == (y0 .. y1) \X (x0 .. x1)

\* "Morphology: close holes then dilate edges", on a solid rectangle
CallMorph ==
    /\ pipe = NoPipe
    /\ \E y0, y1 \in 0 .. MorphShape[1] - 1, x0, x1 \in 0 .. MorphShape[2] - 1 :
          /\ y0 <= y1 /\ x0 <= x1
          /\ \E close \in 0 .. MaxRadius, dilate \in 1 .. MaxRadius :
                LET mask == MkMask(MorphShape[1], MorphShape[2], Rect(y0, y1, x0, x1))
                IN  pipe' = [op |-> "morph", mask |-> mask, box |-> <<y0, y1, x0, x1>>,
                             mask_close |-> close, mask_dilate |-> dilate,
                             out |-> Morphology(mask, close, dilate)]
    /\ UNCHANGED <<variant, cfg, stabVars, serverVars>>

\* the frame the whole postprocessor is tried on, and the pixels its masks
\* are made of: two pixels side by side, one a column further, two joined
\* by a diagonal, one far from the others
PostShape == <<4, 5>>

PostPixels == {<<0, 0>>, <<0, 1>>, <<0, 3>>, <<1, 4>>, <<3, 4>>, <<3, 1>>}

\* lines 97-110 of inpaint on one mask
CallPostprocess ==
    /\ pipe = NoPipe
    /\ \E px \in SUBSET PostPixels, a \in 0 .. MaxArea :
          \E close \in 0 .. MaxRadius, dilate \in 0 .. MaxRadius :
             LET mask == MkMask(PostShape[1], PostShape[2], px)
             IN  pipe' = [op |-> "post", mask |-> mask, min_area |-> a,
                          mask_close |-> close, mask_dilate |-> dilate,
                          out |-> Postprocess(mask, a, close, dilate)]
    /\ UNCHANGED <<variant, cfg, stabVars, serverVars>>

OpsNext == CallFilter \/ CallRoi \/ CallMorph \/ CallPostprocess \/ LibDone

OpsSpec == OpsInit /\ [][OpsNext]_vars

\* ------------------------------------------------------------------
\* The RTMDet-only server fed the same frames twice, with different masks
\* ------------------------------------------------------------------

\* the frames sent to each of the two runs
MaxTwinFrames == 2

\* struct.pack("!I", n) for the lengths in use, and its inverse
PackWord(n) == <<n \div 16777216, (n \div 65536) % 256, (n \div 256) % 256, n % 256>>

UnpackWord(b) == ((b[1] * 256 + b[2]) * 256 + b[3]) * 256 + b[4]

\* struct.unpack("!II", header)
UnpackHeader(b) == <<UnpackWord(SubSeq(b, 1, 4)), UnpackWord(SubSeq(b, 5, 8))>>

\* the bytes a peer writes for one frame
PackFrame(p, m) == PackWord(Len(p)) \o PackWord(Len(m)) \o p \o m

\* a handler that leaves the mask bytes in the stream
DiscardedMaskBytesNone(mask_length) == 0

\* if mask_length > 0: _ = recv_exact(conn, mask_length)
DiscardedMaskBytes(mask_length) == IF mask_length > 0 THEN mask_length ELSE 0

\* one run: the connection, the bytes sent and not yet read, the
\* inpainter's stabilizer, and the responses written so far
NewRun == [open |-> TRUE, unread |-> <<>>, prev_mask |-> None, prev_ttl |-> 0,
           responses |-> <<>>]

\* one pass of handle_client's loop in the RTMDet-only server, alone on its
\* inpainter, over the bytes at hand; result is the detector's answer and
\* encodes tells whether cv2.imencode succeeds.  The pass waits (the run is
\* unchanged) until the whole frame has arrived.
HandleClientPass(r, result, encodes, c) ==
    IF ~r.open \/ Len(r.unread) < 8 THEN r
    ELSE LET lengths == UnpackHeader(r.unread)
             img_length == lengths[1]
             frame_end == 8 + img_length + DiscardedMaskBytes(lengths[2])
         IN  IF InvalidLength(img_length) THEN [r EXCEPT !.open = FALSE]
             ELSE IF Len(r.unread) < frame_end THEN r
             ELSE LET data == SubSeq(r.unread, 9, 8 + img_length)
                      rest == SubSeq(r.unread, frame_end + 1, Len(r.unread))
                      img == DecodeImage(data)
                  IN  IF img = None
                      THEN [r EXCEPT !.unread = rest,
                                     !.responses = Append(@, EchoResponse(data)[1])]
                      ELSE LET plan == StablePlan(img[1], result, r.prev_mask,
                                                  r.prev_ttl, c)
                               done == StableInpaint(img[1], result, plan)
                               raised == result.kind = "raise"
                               answer == IF done.returned THEN done.out ELSE done.input
                           IN  [open |-> TRUE,
                                unread |-> rest,
                                prev_mask |-> IF raised THEN r.prev_mask ELSE plan.prev_mask,
                                prev_ttl |-> IF raised THEN r.prev_ttl ELSE plan.prev_ttl,
                                responses |->
                                    Append(r.responses,
                                           IF encodes THEN SendFrame(EncodeImage(answer))
                                           ELSE EchoResponse(data)[1])]

\* the image payloads and the mask payloads of the two runs' frames
TwinPayloads == {<<>>, JunkBytes, JpegA, JpegB}

TwinMasks == {<<>>} \cup MaskPayloads

\* what the detector may answer for the frame's image
TwinResults(p) ==
    IF DecodeImage(p) = None THEN {[kind |-> "nopred", preds |-> <<>>]}
    ELSE {[kind |-> "raise", preds |-> <<>>]}
            \cup ServerResults(DecodeImage(p)[1].h, DecodeImage(p)[1].w)

TwinInit ==
    /\ variant = "rtmdet_only"
    /\ cfg \in {c \in ServerConfigs : ~c.debug_on /\ c.debug_every = 1}
    /\ prev_mask = None
    /\ prev_ttl = 0
    /\ NoServer

\* two servers start, each with an inpainter of its own, and a peer connects
\* to each
TwinConnect ==
    /\ pipe = NoPipe
    /\ pipe' = [op |-> "twin", frames |-> 0, a |-> NewRun, b |-> NewRun,
                masks |-> <<>>]
    /\ UNCHANGED <<variant, cfg, stabVars, serverVars>>

\* both peers send their next frame: the same image bytes, each its own
\* mask bytes; each handler makes a pass over what it has; the detector and
\* the encoder, given the same image, behave the same in both runs
TwinFrame ==
    /\ pipe.op = "twin"
    /\ pipe.frames < MaxTwinFrames
    /\ \E p \in TwinPayloads, ma \in TwinMasks, mb \in TwinMasks :
          \E result \in TwinResults(p), encodes \in BOOLEAN :
             /\ (DecodeImage(p) = None => encodes)
             /\ \E ra \in {HandleClientPass([pipe.a EXCEPT !.unread = @ \o PackFrame(p, ma)],
                                            result, encodes, cfg)},
                   rb \in {HandleClientPass([pipe.b EXCEPT !.unread = @ \o PackFrame(p, mb)],
                                            result, encodes, cfg)} :
                   pipe' = [op |-> "twin", frames |-> pipe.frames + 1, a |-> ra, b |-> rb,
                            masks |-> <<ma, mb>>]
    /\ UNCHANGED <<variant, cfg, stabVars, serverVars>>

TwinFeedNext == TwinConnect \/ TwinFrame

TwinFeedSpec == TwinInit /\ [][TwinFeedNext]_vars

\* ------------------------------------------------------------------
\* Properties: concurrency
\* ------------------------------------------------------------------

\* the sessions that are inside a detector-inference or fill-operator call,
\* whichever call site made it
Computing == {s \in Sessions : pc[s] \in {"detecting", "filling", "debug_detecting"}}

\* C1: in every server variant at most one detector-inference or fill call is
\* executing at any instant across all sessions, the debug-dump re-inference
\* counted with the per-frame pipeline call.
C1_OneComputeCallAtATime == Cardinality(Computing) <= 1

\* C2: the previous mask and the remaining persistence a frame of a session
\* is processed with are those its own earlier frames left (empty and zero at
\* the session's first frame), whatever the other sessions have sent.
C2_StabilizerOwnedBySession ==
    \A s \in Sessions :
       (UsesStable(variant) /\ pc[s] = "detecting")
          => (prev_mask = own_prev[s] /\ prev_ttl = own_ttl[s])

\* ------------------------------------------------------------------
\* Properties: temporal persistence
\* ------------------------------------------------------------------

\* C3: with keep_frames = K, the n-th consecutive frame with an empty
\* detection after a frame of the session with a non-empty one uses that
\* frame's mask when n <= K and the empty mask when n > K.
C3_BoundedPersistence ==
    \A s \in Sessions :
       (UsesStable(variant) /\ chosen[s] # None /\ run[s] >= 1)
          => IF run[s] <= cfg.keep_frames
             THEN chosen[s] = last_det[s]
             ELSE ~MaskAny(chosen[s][1])

\* ------------------------------------------------------------------
\* Properties: the fill mask of the hint-aware pipeline
\* ------------------------------------------------------------------

\* the pixels of the hint mask of the recorded call, at the frame's size
HintPixels ==
    LET e == BaseEntry(pipe.image, pipe.prior)
    IN  IF e.prior = None THEN {} ELSE e.prior[1].px

\* the pixels of the accepted detections of the recorded call, brought from
\* the detector's resolution to full-frame coordinates
DetectionPixels ==
    LET img == pipe.image
        e == BaseEntry(img, pipe.prior)
        inf == BaseInferShape(img, e, cfg)
        combined == BuildCombinedMask(PredsOf(pipe.result), inf[1], inf[2],
                                      cfg.target_labels, cfg.score_threshold)
        atwork == IF inf # <<e.wh, e.ww>> THEN ResizeNearest(combined, e.wh, e.ww)
                  ELSE combined
    IN  IF e.crop # None
        THEN PasteMask(atwork, img.h, img.w, e.crop[1][1], e.crop[1][3]).px
        ELSE atwork.px

\* C4: in RTMDetInpainter.inpaint the mask handed to the fill operator holds
\* every pixel of the hint mask and every pixel of every accepted detection
\* (in full-frame coordinates), on every branch.
C4_FillMaskCoversSources ==
    (pipe.op = "base" /\ pipe.returned /\ HintPixels \cup DetectionPixels # {})
       => /\ pipe.fill # None
          /\ (HintPixels \cup DetectionPixels) \subseteq pipe.fill[1].mask.px

\* ------------------------------------------------------------------
\* Properties: the session protocol
\* ------------------------------------------------------------------

\* C5: within a session frames are answered strictly in arrival order, one at
\* a time: the header of frame n+1 is read only once frame n has been
\* answered, and every complete frame has exactly one response by the time
\* the handler is back at the header read.
C5_InOrderOneResponse ==
    \A s \in Sessions :
       /\ sent[s] <= complete[s]
       /\ complete[s] <= hdrs[s]
       /\ hdrs[s] <= sent[s] + 1
       /\ (pc[s] = "recv_header" => (sent[s] = complete[s] /\ complete[s] = hdrs[s]))

\* two frames of one session answered, the handler back at the header read
C5_Witness == \E s \in Sessions : pc[s] = "recv_header" /\ sent[s] >= 2

\* C6: a header with image length 0 closes the session for good: nothing is
\* sent for it, no byte is read after the header, and no later frame of the
\* connection is read or answered.
C6_ZeroLengthCloses ==
    \A s \in Sessions :
       zero_hdr[s] => /\ pc[s] = "closed"
                      /\ frame_bytes[s] = HeaderBytes(variant)
                      /\ resp[s] = None
                      /\ sent[s] = complete[s]
                      /\ complete[s] = hdrs[s]

\* a session closed by a zero image length that announced mask bytes, after
\* an answered frame
C6_Witness ==
    \E s \in Sessions : zero_hdr[s] /\ hdr[s] [2] > 0 /\ sent[s] >= 1 /\ pc[s] = "closed"

\* the frame of session s failed to decode, or its result failed to encode
CodecFailed(s) == note[s] \cap {"decode_fail", "encode_fail"} # {}

\* the detector or the fill operator raised for the frame of session s
ComputeFailed(s) == note[s] \cap {"detector_raised", "fill_raised"} # {}

\* the step of session s is the writing of its response
Answered(s) == pc[s] = "send" /\ sent'[s] = sent[s] + 1

\* C7: when the payload does not decode or the result does not encode, the
\* response is the original payload's bytes behind its original length, and
\* once it is written the session is back reading the next header.
C7_EchoOnCodecFailure ==
    /\ [](\A s \in Sessions :
             CodecFailed(s) => /\ pc[s] = "send"
                               /\ resp[s] = Some([len |-> hdr[s] [1], data |-> payload[s]]))
    /\ [][\A s \in Sessions :
             (CodecFailed(s) /\ Answered(s)) => pc'[s] = "recv_header"]_vars

\* one session about to echo an undecodable payload while another is about
\* to echo after a failed encode
C7_Witness ==
    \E s, t \in Sessions :
       /\ pc[s] = "send" /\ "decode_fail" \in note[s]
       /\ pc[t] = "send" /\ "encode_fail" \in note[t]

\* C8: when the detector or the fill operator raises, the session is not
\* closed: the frame handed to the encoder is the decoded input frame, the
\* response is its encoding, and the session goes on to the next header.
C8_PassthroughOnComputeFailure ==
    /\ [](\A s \in Sessions :
             ComputeFailed(s)
                => /\ pc[s] \in {"debug_wait", "debug_detecting", "encode", "send"}
                   /\ (pc[s] # "send" => processed[s] = DecodeImage(payload[s]))
                   /\ ((pc[s] = "send" /\ ~CodecFailed(s))
                          => resp[s] = Some(SendFrame(EncodeImage(DecodeImage(payload[s]) [1])))))
    /\ [][\A s \in Sessions :
             (ComputeFailed(s) /\ Answered(s)) => pc'[s] = "recv_header"]_vars

\* a response ready after the fill operator raised in one session and the
\* detector raised in another
C8_Witness ==
    \E s, t \in Sessions :
       /\ pc[s] = "send" /\ "fill_raised" \in note[s] /\ ~CodecFailed(s)
       /\ pc[t] = "send" /\ "detector_raised" \in note[t] /\ ~CodecFailed(t)

\* C9: a detector failure in the session pipeline hands back the input frame
\* and leaves the previous mask and the remaining persistence as they were.
C9_DetectorFailureKeepsStabilizer ==
    [][\A s \in Sessions :
          (UsesStable(variant) /\ pc[s] = "detecting" /\ "detector_raised" \in note'[s])
             => /\ prev_mask' = prev_mask
                /\ prev_ttl' = prev_ttl
                /\ processed'[s] = image[s]
                /\ image'[s] = image[s]]_vars

\* the detector has raised for a frame while a mask was being persisted
C9_Witness ==
    \E s \in Sessions :
       /\ UsesStable(variant) /\ "detector_raised" \in note[s]
       /\ prev_mask # None /\ prev_ttl > 0

\* ------------------------------------------------------------------
\* Properties: the frame
\* ------------------------------------------------------------------

\* C10: a pipeline call that returns leaves the caller's frame as it was and
\* returns a frame of the same height and width, whichever path it took.
C10_InputKeptSameSize ==
    (pipe.op # "none" /\ pipe.returned)
       => /\ pipe.input = pipe.image
          /\ ShapeOf(pipe.out) = ShapeOf(pipe.image)

\* a returned ROI fill: the fill operator got a crop smaller than the frame
\* and the returned frame differs from the input
C10_Witness ==
    /\ pipe.op = "stable" /\ pipe.returned /\ pipe.fill # None
    /\ ShapeOf(pipe.fill[1].img) # ShapeOf(pipe.image)
    /\ pipe.out # pipe.image

\* ------------------------------------------------------------------
\* Properties: what the locks cover
\* ------------------------------------------------------------------

RecvStates == {"recv_header", "recv_payload", "recv_mask"}

\* the step closes session s because its peer closed while s was reading
PeerGone(s) == pc[s] \in RecvStates /\ pc'[s] = "closed" /\ zero_hdr'[s] = zero_hdr[s]

\* the step leaves the protocol state of session t alone
SessionUntouched(t) ==
    /\ pc'[t] = pc[t] /\ hdr'[t] = hdr[t] /\ payload'[t] = payload[t]
    /\ mask_payload'[t] = mask_payload[t] /\ image'[t] = image[t]
    /\ prior_mask'[t] = prior_mask[t] /\ processed'[t] = processed[t]
    /\ resp'[t] = resp[t] /\ note'[t] = note[t] /\ frame_index'[t] = frame_index[t]
    /\ hdrs'[t] = hdrs[t] /\ complete'[t] = complete[t] /\ sent'[t] = sent[t]

\* C12: when the peer closes before a header, payload or mask is complete,
\* the session closes for good without a response for the partial frame, it
\* holds no lock at that point, and the step changes neither the locks, the
\* inpainter nor any other session.
C12_PeerCloseEndsOnlyThatSession ==
    /\ [](\A s \in Sessions :
             pc[s] \in RecvStates \cup {"closed"}
                => (infer_lock # s /\ inpainter_lock # s /\ resp[s] = None))
    /\ [][\A s \in Sessions :
             PeerGone(s) => /\ sent'[s] = sent[s]
                            /\ lockVars' = lockVars
                            /\ stabVars' = stabVars
                            /\ \A t \in Sessions \ {s} : SessionUntouched(t)]_vars
    /\ [][\A s \in Sessions :
             pc[s] = "closed" => (pc'[s] = "closed" /\ sent'[s] = sent[s])]_vars

\* a session closed in the middle of a frame while another has a response
\* to send
C12_Witness ==
    \E s, t \in Sessions :
       /\ s # t /\ pc[s] = "closed" /\ ~zero_hdr[s] /\ hdrs[s] > complete[s]
       /\ pc[t] = "send"

\* ------------------------------------------------------------------
\* Properties: frames without detections
\* ------------------------------------------------------------------

\* both calls of the recorded pair returned the frame they were given
BothIdentical ==
    /\ pipe.first.returned /\ pipe.first.out = pipe.image
    /\ pipe.second.returned /\ pipe.second.out = pipe.image

\* C13: two calls in a row on a frame without detections and without a hint
\* both return a frame pixel-identical to the input.
C13_QuietFrameTwiceIdentical == pipe.op = "twice" => BothIdentical

\* C13, amended: they do whenever the stabilizer is not tracking before the
\* first call (the hint-aware pipeline has no stabilizer); a tracking
\* stabilizer has the frame filled with the remembered mask.
C13_QuietFrameTwiceIdenticalWhenIdle ==
    (pipe.op = "twice" /\ ~pipe.tracking) => BothIdentical

\* the pair of calls made on the session pipeline with a mask remembered
\* but no persistence left
C13_Witness ==
    /\ pipe.op = "twice" /\ ~pipe.tracking /\ BothIdentical
    /\ variant = "RTMDetInpainterStable" /\ prev_mask # None

\* ------------------------------------------------------------------
\* Properties: the hint-only fallback
\* ------------------------------------------------------------------

\* the detections of the recorded call that pass the label and score filters
Survivors ==
    {i \in 1 .. Len(PredsOf(pipe.result)) :
        LET d == PredsOf(pipe.result)[i]
        IN  /\ (cfg.target_labels = {} \/ LabelName(d.label) \in cfg.target_labels)
            /\ d.score >= cfg.score_threshold}

\* C14: in the hint-aware pipeline, when the detector gives no predictions or
\* no detection survives filtering, a non-empty hint alone is the fill mask
\* (at the frame's size, with the whole frame); without a hint, or with an
\* all-zero one, the fill operator is not called and the frame comes back
\* as it went in.
C14_HintOnlyFallback ==
    (pipe.op = "base" /\ pipe.result.kind # "raise" /\ Survivors = {})
       => /\ pipe.returned
          /\ IF HintPixels # {}
             THEN /\ pipe.fill # None
                  /\ pipe.fill[1].img = pipe.image
                  /\ pipe.fill[1].mask = MkMask(pipe.image.h, pipe.image.w, HintPixels)
             ELSE /\ pipe.fill = None
                  /\ pipe.out = pipe.image

\* a call with a hint whose only detection is below the score threshold
C14_Witness ==
    /\ pipe.op = "base" /\ pipe.returned /\ Survivors = {}
    /\ Len(PredsOf(pipe.result)) > 0 /\ HintPixels # {} /\ pipe.fill # None

\* ------------------------------------------------------------------
\* Properties: small-component removal
\* ------------------------------------------------------------------

\* no pixel of C touches a pixel of P outside C
Closed(C, P) == \A p \in C, q \in P \ C : ~Adjacent8(p, q)

\* the 8-connected components of the pixel set P: the smallest non-empty
\* sets of its pixels that touch nothing else of P
Components(P) ==
    {C \in SUBSET P :
        /\ C # {} /\ Closed(C, P)
        /\ \A D \in SUBSET C : (D # {} /\ D # C) => ~Closed(D, P)}

\* C15: small-component removal with minimum area A > 0 returns exactly the
\* union of the 8-connected components of the mask that have at least A
\* pixels, on the same grid.
C15_KeepsComponentsOfMinArea ==
    pipe.op = "filter"
       => /\ ShapeOf(pipe.out) = ShapeOf(pipe.mask)
          /\ pipe.out.px = UNION {C \in Components(pipe.mask.px) :
                                     Cardinality(C) >= pipe.min_area}

\* two pixels joined by a diagonal and a far single pixel, with minimum
\* area 2: the pair is kept, the single pixel dropped
C15_Witness ==
    /\ pipe.op = "filter" /\ pipe.min_area = 2
    /\ pipe.mask.px = {<<0, 0>>, <<1, 1>>, <<1, 3>>}
    /\ pipe.out.px = {<<0, 0>>, <<1, 1>>}

\* ------------------------------------------------------------------
\* Properties: the region of interest
\* ------------------------------------------------------------------

\* the bounds <<y0, y1, x0, x1>> the claim gives for the pixel set P on an
\* h-by-w frame with margin g
ClaimedBounds(P, g, h, w) ==
    LET minY == CHOOSE y \in {p[1] : p \in P} : \A p \in P : y <= p[1]
        maxY == CHOOSE y \in {p[1] : p \in P} : \A p \in P : y >= p[1]
        minX == CHOOSE x \in {p[2] : p \in P} : \A p \in P : x <= p[2]
        maxX == CHOOSE x \in {p[2] : p \in P} : \A p \in P : x >= p[2]
    IN  <<IF minY - g > 0 THEN minY - g ELSE 0,
          IF maxY + g < h - 1 THEN maxY + g ELSE h - 1,
          IF minX - g > 0 THEN minX - g ELSE 0,
          IF maxX + g < w - 1 THEN maxX + g ELSE w - 1>>

\* bounds b lie on the h-by-w frame, in order, and hold every pixel of P
BoundsSound(b, P, h, w) ==
    /\ 0 <= b[1] /\ b[1] <= b[2] /\ b[2] < h
    /\ 0 <= b[3] /\ b[3] <= b[4] /\ b[4] < w
    /\ \A p \in P : b[1] <= p[1] /\ p[1] <= b[2] /\ b[3] <= p[2] /\ p[2] <= b[4]

\* C16: a non-empty mask on an h-by-w frame with margin g gets the bounds
\* min - g and max + g clamped to 0 and to h - 1, w - 1, which are in order,
\* on the frame and around every set pixel (the session pipeline with its
\* roi_margin, the hint-aware pipeline's crop with its own margin); an empty
\* mask gets no region at all, whatever the margin.
C16_RoiBounds ==
    pipe.op = "roi"
       => LET P == pipe.mask.px
              h == pipe.mask.h
              w == pipe.mask.w
              hb == ClaimedBounds(P, pipe.hint_margin, h, w)
          IN  IF P = {}
              THEN pipe.path = "copy" /\ pipe.prior = None /\ pipe.crop = None
              ELSE /\ pipe.path # "copy"
                   /\ pipe.bbox = ClaimedBounds(P, pipe.margin, h, w)
                   /\ BoundsSound(pipe.bbox, P, h, w)
                   /\ pipe.prior # None
                   /\ pipe.crop # None
                         => /\ pipe.crop[1] = <<hb[1], hb[2] + 1, hb[3], hb[4] + 1>>
                            /\ BoundsSound(hb, P, h, w)

\* a single pixel in the far corner of the wide frame, margin 2: the bounds
\* are cut at the frame's last row and column, and the hint crop does not
\* start at column 0
C16_Witness ==
    /\ pipe.op = "roi" /\ pipe.margin = 2
    /\ pipe.mask.px = {<<3, 19>>}
    /\ pipe.bbox = <<1, 3, 17, 19>>
    /\ pipe.crop # None /\ pipe.crop[1][3] > 0

\* ------------------------------------------------------------------
\* Properties: the postprocessor
\* ------------------------------------------------------------------

\* the smallest rectangle <<y0, y1, x0, x1>> around the pixel set P
BoundingBox(P) ==
    <<CHOOSE y \in {p[1] : p \in P} : \A p \in P : y <= p[1],
      CHOOSE y \in {p[1] : p \in P} : \A p \in P : y >= p[1],
      CHOOSE x \in {p[2] : p \in P} : \A p \in P : x <= p[2],
      CHOOSE x \in {p[2] : p \in P} : \A p \in P : x >= p[2]>>

\* the rectangle b grown by d on each side, cut to the h-by-w frame
Grown(b, d, h, w) ==
    <<IF b[1] - d > 0 THEN b[1] - d ELSE 0,
      IF b[2] + d < h - 1 THEN b[2] + d ELSE h - 1,
      IF b[3] - d > 0 THEN b[3] - d ELSE 0,
      IF b[4] + d < w - 1 THEN b[4] + d ELSE w - 1>>

\* C17: for a solid rectangle and a dilate radius d > 0 the bounding box of
\* the postprocessed mask is the rectangle's grown by exactly d pixels on
\* each side, cut to the frame.
C17_DilateGrowsBoxByRadius ==
    pipe.op = "morph"
       => /\ pipe.out.px # {}
          /\ BoundingBox(pipe.out.px)
                = Grown(pipe.box, pipe.mask_dilate, pipe.mask.h, pipe.mask.w)

\* ------------------------------------------------------------------
\* Properties: mask union
\* ------------------------------------------------------------------

\* the hint and the accepted detections of the recorded call as masks of the
\* frame's size
HintAtFrame == MkMask(pipe.image.h, pipe.image.w, HintPixels)

DetectionsAtFrame == MkMask(pipe.image.h, pipe.image.w, DetectionPixels)

\* union with the empty mask, in either order, and with itself
UnionLaws(a, b) ==
    /\ MaskUnion(a, ZeroMask(a.h, a.w)) = a
    /\ MaskUnion(a, b) = MaskUnion(b, a)
    /\ MaskUnion(a, a) = a
    /\ \A p \in Grid(a.h, a.w) : p \in MaskUnion(a, b).px <=> (p \in a.px \/ p \in b.px)

\* C18: mask union is the pixel-wise OR (the empty mask is its identity, it
\* is commutative and idempotent), and the mask of the hint-aware pipeline is
\* built from the detections and the hint with nothing but this operation:
\* the fill mask is their union, and there is no fill when the union is empty.
C18_MasksBuiltByUnion ==
    (pipe.op = "base" /\ pipe.returned)
       => /\ UnionLaws(DetectionsAtFrame, HintAtFrame)
          /\ IF pipe.fill = None
             THEN ~MaskAny(MaskUnion(DetectionsAtFrame, HintAtFrame))
             ELSE pipe.fill[1].mask = MaskUnion(DetectionsAtFrame, HintAtFrame)

\* ------------------------------------------------------------------
\* Properties: the stabilizer's rules
\* ------------------------------------------------------------------

\* the step is the detector's answer for a frame of session s reaching the
\* stabilizer of the session pipeline
StabilizerFed(s) ==
    /\ UsesStable(variant) /\ pc[s] = "detecting" /\ pc'[s] # "detecting"
    /\ "detector_raised" \notin note'[s]

\* the frame of that step has a non-empty detected mask, last_det'[s]
FreshMask(s) == StabilizerFed(s) /\ run'[s] = 0

\* the frame of that step has an empty detected mask
NoFreshMask(s) == StabilizerFed(s) /\ run'[s] # 0

\* C19: a frame with a non-empty detected mask m makes m the remembered mask
\* (in place of any earlier one), resets the remaining persistence to
\* keep_frames, and m is the mask used for the frame.
C19_FreshMaskRemembered ==
    [][\A s \in Sessions :
          FreshMask(s) => /\ MaskAny(last_det'[s][1])
                          /\ prev_mask' = last_det'[s]
                          /\ prev_ttl' = cfg.keep_frames
                          /\ chosen'[s] = last_det'[s]]_vars

\* a session being filled with its fresh mask, remembered in place of the
\* different mask of a frame another session had answered before
C19_Witness ==
    \E s, t \in Sessions :
       /\ s # t /\ UsesStable(variant) /\ pc[s] = "filling" /\ run[s] = 0
       /\ prev_mask = last_det[s] /\ chosen[s] = last_det[s]
       /\ sent[t] >= 1 /\ last_det[t] # None /\ last_det[t] # last_det[s]

\* C20: a frame with an empty detected mask met with r > 0 frames of
\* persistence left is filled with the remembered mask, which is the mask of
\* the most recent frame with a non-empty detection (nothing else ever
\* changes it); r becomes r - 1 and the remembered mask stays.  With no
\* persistence left the stabilizer is idle: the frame gets the empty mask
\* and nothing changes.
C20_TrackingRule ==
    /\ [][\A s \in Sessions :
             (NoFreshMask(s) /\ prev_ttl > 0)
                => /\ prev_mask # None
                   /\ chosen'[s] = prev_mask
                   /\ prev_ttl' = prev_ttl - 1
                   /\ prev_mask' = prev_mask]_vars
    /\ [][\A s \in Sessions :
             (NoFreshMask(s) /\ prev_ttl = 0)
                => /\ ~MaskAny(chosen'[s][1])
                   /\ prev_ttl' = 0
                   /\ prev_mask' = prev_mask]_vars
    /\ [][prev_mask' # prev_mask
             => \E s \in Sessions : FreshMask(s) /\ prev_mask' = last_det'[s]]_vars

\* a frame without detections that used up the last frame of persistence
\* and was given the remembered mask
C20_Witness ==
    \E s \in Sessions :
       /\ UsesStable(variant) /\ cfg.keep_frames = 2 /\ run[s] >= 1
       /\ chosen[s] # None /\ chosen[s] = prev_mask /\ prev_ttl = 0

\* ------------------------------------------------------------------
\* Properties: the stages of one call of the session pipeline
\* ------------------------------------------------------------------

\* the call on record is one of the session pipeline whose detector answered
StableStages == pipe.op = "stable_stages" /\ pipe.call.result.kind # "raise"

\* the stabilizer was idle when the call on record began
WasIdle == pipe.before.prev_mask = None \/ pipe.before.prev_ttl = 0

\* C21: a frame with an empty detected mask that meets an idle stabilizer (no
\* remembered mask, or no persistence left) is not filled: the fill operator
\* is not invoked, the output is the input, pixel for pixel, and the
\* stabilizer is as it was; a remembered mask without persistence left is
\* not the mask of the frame.
C21_IdleRule ==
    (StableStages /\ ~MaskAny(pipe.det_mask) /\ WasIdle)
        => /\ ~MaskAny(pipe.chosen)
           /\ pipe.call.fill = None
           /\ pipe.call.returned
           /\ pipe.call.out = pipe.call.image
           /\ pipe.call.input = pipe.call.image
           /\ prev_mask = pipe.before.prev_mask
           /\ prev_ttl = pipe.before.prev_ttl

\* a frame without detections met a remembered mask that had no persistence
\* left
C21_Witness ==
    /\ StableStages /\ ~MaskAny(pipe.det_mask)
    /\ pipe.before.prev_mask # None /\ MaskAny(pipe.before.prev_mask[1])
    /\ pipe.before.prev_ttl = 0
    /\ pipe.call.fill = None /\ pipe.call.returned

\* the pixels of P that lie in an 8-connected component of at least a pixels
\* (every pixel when a <= 1)
InComponentsOf(P, a) ==
    {p \in P : a <= 1 \/ Cardinality(ComponentOf(p, P)) >= a}

\* the stabilizer was tracking when the call on record began
WasTracking == pipe.before.prev_mask # None /\ pipe.before.prev_ttl > 0

\* C22: in the session pipeline a frame whose detections are all removed by
\* the small-component filter is an empty frame for the stabilizer: while
\* tracking it is filled with the remembered mask, which stays, and the
\* persistence is counted down, not reset.
C22_StabilizerSeesFilteredMask ==
    (/\ StableStages /\ WasTracking
     /\ MaskAny(pipe.det_mask)
     /\ InComponentsOf(pipe.det_mask.px, cfg.min_area) = {})
        => /\ pipe.chosen = pipe.before.prev_mask[1]
           /\ prev_mask = pipe.before.prev_mask
           /\ prev_ttl = pipe.before.prev_ttl - 1

\* C23: in the session pipeline the mask handed to the fill operator holds
\* every pixel of the mask the stabilizer selected (the fresh detection or
\* the persisted mask) that lies in an 8-connected component of at least
\* min_area pixels; on the ROI path the fill mask is read at the ROI's
\* offset.
C23_FillMaskKeepsSurvivors ==
    StableStages
        => \A p \in InComponentsOf(pipe.chosen.px, cfg.min_area) :
              /\ pipe.call.fill # None
              /\ LET off == IF pipe.path = "roi" THEN <<pipe.bbox[1], pipe.bbox[3]>>
                            ELSE <<0, 0>>
                 IN  <<p[1] - off[1], p[2] - off[2]>> \in pipe.call.fill[1].mask.px

\* ------------------------------------------------------------------
\* Properties: the postprocessor as a whole
\* ------------------------------------------------------------------

\* the mask on record after small-component removal, as the claim has it
PostFiltered ==
    MkMask(pipe.mask.h, pipe.mask.w, InComponentsOf(pipe.mask.px, pipe.min_area))

\* the pixels within the ellipse of radius d around a pixel of m
PureDilation(m, d) ==
    {p \in Grid(m.h, m.w) :
        \E q \in m.px : <<q[1] - p[1], q[2] - p[2]>> \in EllipseKernel(d)}

\* C24: the postprocessor removes the small components first, then closes
\* (only if the close radius is > 0), then dilates (only if the dilate
\* radius is > 0), with the one kernel of lines 102-104.  A zero parameter
\* switches its step off: with all three zero the mask comes back as it
\* went in, and with close = 0 the outcome is the dilation of the filtered
\* mask by the dilate radius.
C24_PostprocessorOrderAndKnobs ==
    pipe.op = "post"
       => LET K == EllipseKernel(Max2(pipe.mask_close, pipe.mask_dilate))
              closed == IF pipe.mask_close > 0 THEN MorphClose(PostFiltered, K)
                        ELSE PostFiltered
              grown == IF pipe.mask_dilate > 0 THEN Dilate(closed, K) ELSE closed
          IN  /\ pipe.out = grown
              /\ (pipe.min_area = 0 /\ pipe.mask_close = 0 /\ pipe.mask_dilate = 0)
                    => pipe.out = pipe.mask
              /\ pipe.mask_close = 0
                    => pipe.out.px = PureDilation(PostFiltered, pipe.mask_dilate)
              /\ pipe.mask_dilate = 0 => pipe.out = closed
              /\ pipe.min_area = 0
                    => pipe.out = Morphology(pipe.mask, pipe.mask_close, pipe.mask_dilate)

\* two single pixels a dilation would join, with minimum area 2: both are
\* removed before anything is grown, and nothing is left
C24_Witness ==
    /\ pipe.op = "post"
    /\ pipe.mask.px = {<<0, 1>>, <<0, 3>>}
    /\ pipe.min_area = 2 /\ pipe.mask_close = 0 /\ pipe.mask_dilate = 1
    /\ pipe.out.px = {}

\* ------------------------------------------------------------------
\* Properties: the fill region of the session pipeline
\* ------------------------------------------------------------------

\* the rows and columns y0 .. y1, x0 .. x1 of the ROI on record
RoiPixels == (pipe.bbox[1] .. pipe.bbox[2]) \X (pipe.bbox[3] .. pipe.bbox[4])

\* the final mask on record is non-empty and its ROI is not degenerate
RoiCase ==
    /\ StableStages /\ MaskAny(pipe.mask)
    /\ pipe.bbox[2] > pipe.bbox[1] /\ pipe.bbox[4] > pipe.bbox[3]

\* C25: with a non-empty final mask and a ROI that is not degenerate, the
\* fill operator is handed the image and the mask cut to the rows and
\* columns of the ROI; its result is written at those rows and columns into
\* a copy of the input, so the caller's frame is untouched and the output is
\* the input outside the ROI and the fill result inside.
C25_RoiFillAndWriteBack ==
    RoiCase
       => LET y0 == pipe.bbox[1]
              x0 == pipe.bbox[3]
              img == pipe.call.image
              fill == pipe.call.fill[1]
          IN  /\ pipe.call.fill # None
              /\ ShapeOf(fill.img) = <<pipe.bbox[2] - y0 + 1, pipe.bbox[4] - x0 + 1>>
              /\ \A p \in Grid(fill.img.h, fill.img.w) :
                    fill.img.px[p] = img.px[<<p[1] + y0, p[2] + x0>>]
              /\ fill.mask.px = {<<p[1] - y0, p[2] - x0>> : p \in pipe.mask.px \cap RoiPixels}
              /\ pipe.call.input = img
              /\ pipe.call.returned
                    => /\ ShapeOf(pipe.call.out) = ShapeOf(img)
                       /\ \A p \in Grid(img.h, img.w) :
                             pipe.call.out.px[p] =
                                IF p \in RoiPixels
                                THEN FillOp(fill.img, fill.mask).px[<<p[1] - y0, p[2] - x0>>]
                                ELSE img.px[p]

\* a fill on a ROI that is a proper part of the frame and does not start at
\* its origin, with a pixel left as it was outside the ROI
C25_Witness ==
    /\ RoiCase /\ pipe.call.returned
    /\ pipe.bbox[1] > 0
    /\ \E p \in Grid(pipe.call.image.h, pipe.call.image.w) \ RoiPixels :
          pipe.call.out.px[p] = pipe.call.image.px[p]
    /\ \E p \in RoiPixels : pipe.call.out.px[p] = FillColour

\* the hint the call on record kept has a margin-expanded ROI too small to
\* crop to: its height or its width, last row minus first, is at most 2
HintRoiDegenerate ==
    /\ pipe.hint # None
    /\ LET img == pipe.call.image
           b == ClaimedBounds(pipe.hint[1].px, HintMargin(img.h, img.w), img.h, img.w)
       IN  b[2] - b[1] <= HintMinExtent \/ b[4] - b[3] <= HintMinExtent

\* the size of the frame at the resolution the detector is to see
AtInferenceSize(img) ==
    IF cfg.inference_size # None
    THEN <<cfg.inference_size[1][2], cfg.inference_size[1][1]>>
    ELSE ShapeOf(img)

\* C26: a non-empty final mask always gets the fill operator invoked; when
\* the margin-expanded ROI has collapsed to one row or one column the fill
\* runs on the whole frame with the whole mask.  In the hint-aware pipeline
\* a degenerate hint ROI leaves the frame uncropped, and the detector sees
\* the whole frame.
C26_DegenerateRoiFallsBackToFullFrame ==
    /\ (StableStages /\ MaskAny(pipe.mask))
          => /\ pipe.call.fill # None
             /\ (pipe.bbox[2] <= pipe.bbox[1] \/ pipe.bbox[4] <= pipe.bbox[3])
                   => /\ pipe.call.fill[1].img = pipe.call.image
                      /\ pipe.call.fill[1].mask = pipe.mask
    /\ (pipe.op = "base_stages" /\ HintRoiDegenerate)
          => /\ pipe.crop = None
             /\ pipe.working = ShapeOf(pipe.call.image)
             /\ pipe.detector_input = AtInferenceSize(pipe.call.image)

\* a whole-frame fill for a mask whose ROI is a single row of a frame of
\* several rows
C26_Witness ==
    /\ StableStages /\ MaskAny(pipe.mask) /\ pipe.call.returned
    /\ pipe.bbox[2] = pipe.bbox[1] /\ pipe.call.image.h > 1
    /\ pipe.call.fill[1].img = pipe.call.image
    /\ \E p \in pipe.mask.px : pipe.call.out.px[p] = FillColour

\* ------------------------------------------------------------------
\* Properties: the detector's input and the combined mask
\* ------------------------------------------------------------------

\* a call of either pipeline is on record and its detector answered
AnyStages ==
    pipe.op \in {"stable_stages", "base_stages"} /\ pipe.call.result.kind # "raise"

\* the detections on record that pass the label test and the score test
Passing ==
    {i \in 1 .. Len(pipe.call.result.preds) :
        LET d == pipe.call.result.preds[i]
        IN  /\ cfg.target_labels = {} \/ LabelName(d.label) \in cfg.target_labels
            /\ d.score >= cfg.score_threshold}

\* the pixels of detection i at the resolution the detector was given
PixelsOf(i) ==
    LET m == pipe.call.result.preds[i].mask
    IN  IF ShapeOf(m) = pipe.detector_input THEN m.px
        ELSE ResizeNearest(m, pipe.detector_input[1], pipe.detector_input[2]).px

\* C27: the combined detection mask is the union of the masks of the
\* detections whose label is in the target-label set (any label when the set
\* is empty) and whose score is not below the threshold: a detection that
\* fails a test adds no pixel, one that passes both adds all of its pixels.
C27_CombinedMaskOfAcceptedDetections ==
    AnyStages
       => /\ ShapeOf(pipe.combined) = pipe.detector_input
          /\ pipe.combined.px = UNION {PixelsOf(i) : i \in Passing}

\* two detections on record, one rejected for its label and one accepted
\* with a score at the threshold, and the combined mask is the accepted one's
C27_Witness ==
    /\ AnyStages /\ Len(pipe.call.result.preds) = 2
    /\ cfg.target_labels = {"person"}
    /\ Passing = {2} /\ LabelName(pipe.call.result.preds[1].label) = "cat"
    /\ pipe.call.result.preds[2].score = cfg.score_threshold
    /\ pipe.combined.px = PixelsOf(2) /\ pipe.combined.px # {}

\* C28: with an inference resolution configured the detector is handed an
\* image of exactly that resolution, whatever the frame's size and whether
\* or not the working image was cropped to the hint ROI; with none
\* configured it is handed the working image as it is.
C28_DetectorSeesInferenceSize ==
    /\ pipe.op \in {"stable_stages", "base_stages"}
          => (cfg.inference_size # None
                 => pipe.detector_input = AtInferenceSize(pipe.call.image))
    /\ pipe.op = "stable_stages"
          => (cfg.inference_size = None
                 => pipe.detector_input = ShapeOf(pipe.call.image))
    /\ pipe.op = "base_stages"
          => (cfg.inference_size = None => pipe.detector_input = pipe.working)

\* ------------------------------------------------------------------
\* Properties: a failing detector, seen by the pipeline's caller
\* ------------------------------------------------------------------

\* the detector raised in the call on record
DetectorRaised ==
    pipe.op \in {"stable_stages", "base_stages"} /\ pipe.call.result.kind = "raise"

InSection(s) == pc[s] \in {"detecting", "filling"}

\* C30: the shared lock is released on every exit from the detector/fill
\* section, by return or by exception; a session that is sending its
\* response, waiting for a frame or closed holds no lock, so a failure in
\* one session leaves the lock available to the others.
C30_LockReleasedOnEveryExit ==
    /\ [](\A s \in Sessions :
             pc[s] \in {"send", "closed"} \cup RecvStates
                => infer_lock # s /\ inpainter_lock # s)
    /\ [][\A s \in Sessions :
             (InSection(s) /\ ~InSection(s)')
                => infer_lock = s /\ infer_lock' = "free" /\ inpainter_lock' # s]_vars

\* a session sending the frame its detector failed on while another session
\* holds the lock
C30_Witness ==
    \E s, t \in Sessions :
       /\ s # t /\ pc[s] = "send" /\ "detector_raised" \in note[s]
       /\ infer_lock = t /\ pc[t] = "detecting"

\* ------------------------------------------------------------------
\* Properties: slow peers and the two locks
\* ------------------------------------------------------------------

\* session s is blocked on its peer: in recv_exact or in sendall
BlockedOnPeer(s) == pc[s] \in RecvStates \cup {"send"}

\* C31: a session blocked receiving from or sending to its peer holds no
\* lock; and a session whose every neighbour is blocked on a peer (or idle,
\* or closed) is never kept from its next step: it can take the lock it
\* waits for, and go on.
C31_SlowPeerBlocksOnlyItself ==
    /\ \A s \in Sessions :
          BlockedOnPeer(s) => (infer_lock # s /\ inpainter_lock # s)
    /\ \A t \in Sessions :
          (\A s \in Sessions \ {t} : BlockedOnPeer(s) \/ pc[s] \in {"idle", "closed"})
             => /\ pc[t] = "lock_wait" => ENABLED AcquireInferLock(t)
                /\ pc[t] = "run_inference" => ENABLED EnterDetector(t)
                /\ pc[t] = "debug_wait" => ENABLED DebugEnter(t)

\* one session waits for the lock while the other is still sending the
\* response to its previous frame
C31_Witness ==
    \E s, t \in Sessions :
       /\ s # t /\ pc[s] = "send" /\ sent[s] = 0 /\ pc[t] = "lock_wait"
       /\ infer_lock = "free"

\* the holder of the lock session s waits for ("free": s waits for no lock,
\* or the lock is available)
Wants(s) ==
    IF pc[s] = "lock_wait" THEN infer_lock
    ELSE IF pc[s] \in {"run_inference", "debug_wait"} THEN inpainter_lock
    ELSE "free"

\* C38: the two locks never deadlock. No session waits for a lock it holds
\* (neither lock is re-acquired by its holder), no session waits for
\* infer_lock while holding _lock, no two sessions wait for each other, and
\* whenever a held lock is waited for, its holder is inside a call that can
\* return; a step that leaves a session holding both locks took _lock while
\* it already held infer_lock.
C38_LocksNeverDeadlock ==
    /\ [](/\ \A s \in Sessions : Wants(s) # s
          /\ \A s \in Sessions : pc[s] = "lock_wait" => inpainter_lock # s
          /\ \A s, t \in Sessions : ~(s # t /\ Wants(s) = t /\ Wants(t) = s)
          /\ \A s \in Sessions :
                Wants(s) # "free" =>
                   \E t \in Sessions :
                      pc[t] \in {"detecting", "filling", "debug_detecting"}
                      \/ (pc[t] = "run_inference" /\ inpainter_lock = "free"))
    /\ [][\A s \in Sessions :
            (infer_lock' = s /\ inpainter_lock' = s
               /\ ~(infer_lock = s /\ inpainter_lock = s))
              => (infer_lock = s /\ inpainter_lock # s)]_vars

\* a session holding infer_lock waits for _lock while the other session
\* holds _lock alone, for its debug re-inference
C38_Witness ==
    \E s, t \in Sessions :
       /\ s # t /\ pc[s] = "run_inference" /\ infer_lock = s
       /\ pc[t] = "debug_detecting" /\ inpainter_lock = t

\* the sessions with a call to the underlying inferencer in progress
InInferencer == {s \in Sessions : pc[s] \in {"detecting", "debug_detecting"}}

\* C39: detector invocations never overlap: a session inside the
\* inferencer, the debug dump's re-inference included, holds the
\* inpainter's lock, so at most one inferencer call is in progress.
C39_OneInferencerCallAtATime ==
    /\ \A s \in InInferencer : inpainter_lock = s
    /\ Cardinality(InInferencer) <= 1

\* the debug re-inference runs without infer_lock, which the other session
\* holds, waiting for the inferencer
C39_Witness ==
    \E s, t \in Sessions :
       /\ pc[s] = "debug_detecting" /\ infer_lock = t /\ s # t
       /\ pc[t] = "run_inference" /\ InInferencer = {s}

\* ------------------------------------------------------------------
\* Properties: framing and the mask payload
\* ------------------------------------------------------------------

\* session s has received its frame and not yet answered it
Handling(s) ==
    pc[s] \in {"decode", "lock_wait", "run_inference", "detecting", "filling",
               "debug_wait", "debug_detecting", "encode", "send"}

\* C35: framing stays in sync in the image+mask servers: from the end of
\* the receive to the send of the response, on every path, the handler has
\* consumed exactly 8 + image length + mask length bytes of its frame, and
\* it reads the next header only after the response, with nothing of the
\* frame left over or read ahead.
C35_FramingInSync ==
    variant # "quest" =>
       \A s \in Sessions :
          /\ Handling(s) => /\ hdr[s][1] > 0
                            /\ frame_bytes[s] = 8 + hdr[s][1] + hdr[s][2]
          /\ pc[s] = "recv_header" => frame_bytes[s] = 0
          /\ pc[s] = "recv_payload" => frame_bytes[s] = 8
          /\ pc[s] = "recv_mask" => frame_bytes[s] = 8 + hdr[s][1]

\* the second frame of a session is about to be answered after its image
\* failed to decode, with a mask of a length that fits no frame
C35_Witness ==
    \E s \in Sessions :
       /\ variant \in {"skeleton", "debug_dump"} /\ pc[s] = "send" /\ sent[s] >= 1
       /\ "decode_fail" \in note[s] /\ hdr[s][2] = 3

\* the frame of session s came with a mask payload of the frame's size
MaskFits(s) == image[s] # None /\ hdr[s][2] = image[s][1].h * image[s][1].w

\* C32: in the image+mask servers a mask payload becomes the hint only
\* when its byte count is height x width of the decoded image, and the hint
\* then has the frame's shape; with any other length, 0 included, the frame
\* is handled with no hint: the decode step goes on to the inference
\* section, and nothing but a failed send closes a session that is
\* handling a frame.
C32_MaskLengthRule ==
    /\ [](variant # "quest" =>
            \A s \in Sessions :
               (Handling(s) /\ prior_mask[s] # None)
                  => /\ variant \in {"skeleton", "debug_dump"}
                     /\ MaskFits(s)
                     /\ ShapeOf(prior_mask[s][1]) = ShapeOf(image[s][1]))
    /\ [][variant # "quest" =>
            \A s \in Sessions :
               /\ (pc[s] = "decode" /\ pc'[s] # "decode"
                     /\ DecodeImage(payload[s]) # None /\ ~MaskFits(s)')
                    => (pc'[s] = "lock_wait" /\ prior_mask'[s] = None)
               /\ (Handling(s) /\ pc'[s] = "closed") => pc[s] = "send"]_vars

\* a frame whose mask payload has a length that fits no frame was repaired
\* with no hint and is about to be encoded and answered
C32_Witness ==
    \E s \in Sessions :
       /\ variant = "skeleton" /\ pc[s] = "encode" /\ hdr[s][2] = 3
       /\ image[s] # None /\ processed[s] # None /\ processed[s] # image[s]
       /\ note[s] = {}

\* ------------------------------------------------------------------
\* Properties: the stabilizer's state and the fill mask's size
\* ------------------------------------------------------------------

\* C34: the stabilizer's state: the remaining persistence is never
\* negative and never above max(0, keep_frames), and while it is positive
\* a remembered mask is present and has a pixel set.
C34_StabilizerStateInvariant ==
    /\ 0 <= prev_ttl
    /\ prev_ttl <= Max2(0, cfg.keep_frames)
    /\ prev_ttl > 0 => (prev_mask # None /\ MaskAny(prev_mask[1]))

\* a session pipeline built with a negative keep_frames has remembered a
\* mask, with no persistence left
C34_Witness ==
    /\ variant = "RTMDetInpainterStable" /\ cfg.keep_frames < 0
    /\ prev_mask # None /\ prev_ttl = 0

\* C36: in the session pipeline the mask handed to the fill operator has
\* the height and width of the frame handed to it with the mask, and the
\* mask it is cut from has the height and width of the frame being
\* repaired, also when a persisted mask is substituted.
C36_FillMaskHasFrameSize ==
    (StableStages /\ pipe.call.fill # None)
        => /\ ShapeOf(pipe.mask) = ShapeOf(pipe.call.image)
           /\ ShapeOf(pipe.call.fill[1].mask) = ShapeOf(pipe.call.fill[1].img)

\* ------------------------------------------------------------------
\* Properties: the mask bytes in the RTMDet-only server
\* ------------------------------------------------------------------

\* C33: in the RTMDet-only server the mask payload is read from the stream
\* and ignored: two runs fed the same image bytes, with any mask bytes and
\* mask lengths each, have after every frame written the same sequence of
\* responses and hold the same stabilizer state, each with every byte of
\* its stream read.
C33_MaskBytesIgnored ==
    pipe.op = "twin"
        => /\ pipe.a.responses = pipe.b.responses
           /\ pipe.a.prev_mask = pipe.b.prev_mask
           /\ pipe.a.prev_ttl = pipe.b.prev_ttl
           /\ pipe.a.open = pipe.b.open
           /\ \A r \in {pipe.a, pipe.b} : r.open => r.unread = <<>>

\* after two frames, the second sent without a mask to one run and with a
\* mask of the frame's size to the other, both runs have answered twice, the
\* second time with a repaired frame, and are tracking a remembered mask
C33_Witness ==
    /\ pipe.op = "twin" /\ pipe.frames = 2
    /\ pipe.masks[1] = <<>> /\ Len(pipe.masks[2]) = 4
    /\ Len(pipe.a.responses) = 2 /\ Len(pipe.b.responses) = 2
    /\ pipe.a.prev_mask # None /\ pipe.b.prev_ttl > 0
    /\ pipe.a.responses[2].data \notin {JpegA, EncodeImage(MkFrame(2, 2, "a"))}

\* ------------------------------------------------------------------
\* Properties: every frame is answered
\* ------------------------------------------------------------------

\* C37: while the detector and fill calls return, the peers read their
\* responses and the locks are acquired fairly, every complete frame with a
\* non-zero image length a session has received is eventually answered,
\* whatever the other session does.
C37_EveryFrameAnswered ==
    \A s \in Sessions : (complete[s] > sent[s]) ~> (complete[s] = sent[s])

\* a session waits for the lock with a complete frame while the other
\* session, its first frame answered, holds the lock for its second
C37_Witness ==
    \E s, t \in Sessions :
       /\ s # t /\ pc[s] = "lock_wait" /\ complete[s] > sent[s]
       /\ infer_lock = t /\ sent[t] >= 1 /\ complete[t] > sent[t]

====
